---- MODULE Spec2Model ----
(***************************************************************************)
(* Cost Manager: the IndexedDB ledger, the currency converter and the      *)
(* report engine of src/src/lib/idb.js, as a state machine.                *)
(*                                                                         *)
(* JavaScript numbers are modelled as exact rationals n/d (d > 0, lowest   *)
(* terms) extended with NaN and the two infinities; every JavaScript value *)
(* the model handles is a record [k, n, d, s] so that values of different  *)
(* JavaScript types can be compared.                                       *)
(***************************************************************************)
EXTENDS Integers, Sequences, FiniteSets, TLC

(***************************************************************************)
(* JavaScript values                                                       *)
(***************************************************************************)
Abs(x) == IF x < 0 THEN -x ELSE x

RECURSIVE Gcd(_, _)
Gcd(a, b) == IF b = 0 THEN a ELSE Gcd(b, a % b)

Sign(x) == IF x > 0 THEN 1 ELSE IF x < 0 THEN -1 ELSE 0

\* a finite number n/d, in lowest terms with d > 0
Num(n, d) ==
    LET g == Gcd(Abs(n), Abs(d))
        s == IF d < 0 THEN -1 ELSE 1
    IN  [k |-> "num", n |-> (s * n) \div g, d |-> Abs(d) \div g, s |-> ""]

Int2Num(i) == [k |-> "num", n |-> i, d |-> 1, s |-> ""]
NaN == [k |-> "nan", n |-> 0, d |-> 1, s |-> ""]
Inf(sign) == [k |-> "inf", n |-> sign, d |-> 1, s |-> ""]
Undef == [k |-> "undef", n |-> 0, d |-> 1, s |-> ""]
Str(t) == [k |-> "str", n |-> 0, d |-> 1, s |-> t]

IsNumber(v) == v.k \in {"num", "nan", "inf"}       \* typeof v === "number"
IsFinite(v) == v.k = "num"                          \* Number.isFinite(v)
Zero == Int2Num(0)

\* the numeric literals the model's string inputs can spell; any other
\* string is not a numeric literal
NumericLiterals ==
    [t \in {"", "0", "10", "12.5", "-5", "Infinity"} |->
        CASE t = "" -> Zero
          [] t = "0" -> Zero
          [] t = "Infinity" -> Inf(1)
          [] t = "10" -> Int2Num(10)
          [] t = "12.5" -> Num(25, 2)
          [] t = "-5" -> Int2Num(-5)]

\* Number(v)
ToNumber(v) ==
    CASE v.k \in {"num", "nan", "inf"} -> v
      [] v.k = "undef" -> NaN
      [] v.k = "str" ->
            IF v.s \in DOMAIN NumericLiterals THEN NumericLiterals[v.s] ELSE NaN

\* String(v), for the text fields of a cost
ToStr(v) ==
    CASE v.k = "str" -> v.s
      [] v.k = "undef" -> "undefined"

\* a + b
Add(a, b) ==
    CASE a.k = "nan" \/ b.k = "nan" -> NaN
      [] a.k = "inf" /\ b.k = "inf" -> IF a.n = b.n THEN a ELSE NaN
      [] a.k = "inf" -> a
      [] b.k = "inf" -> b
      [] OTHER -> Num(a.n * b.d + b.n * a.d, a.d * b.d)

\* a * b
Mul(a, b) ==
    CASE a.k = "nan" \/ b.k = "nan" -> NaN
      [] a.k = "inf" \/ b.k = "inf" ->
            IF Sign(a.n) * Sign(b.n) = 0 THEN NaN ELSE Inf(Sign(a.n) * Sign(b.n))
      [] OTHER -> Num(a.n * b.n, a.d * b.d)

\* a / b
Div(a, b) ==
    CASE a.k = "nan" \/ b.k = "nan" -> NaN
      [] a.k = "inf" /\ b.k = "inf" -> NaN
      [] a.k = "inf" -> Inf(a.n * (IF b.n < 0 THEN -1 ELSE 1))
      [] b.k = "inf" -> Zero
      [] b.n = 0 -> IF a.n = 0 THEN NaN ELSE Inf(Sign(a.n))
      [] OTHER -> Num(a.n * b.d, a.d * b.n)

\* Number(x.toFixed(2)) of a finite x: the nearest multiple of 1/100, a tie
\* going away from zero
Round2(x) ==
    LET q == (2 * Abs(x.n) * 100 + x.d) \div (2 * x.d)
    IN  IF x.k = "num" THEN Num(Sign(x.n) * q, 100) ELSE x

(***************************************************************************)
(* Rate tables and the converter                                           *)
(***************************************************************************)
defaultStore == "costs"

\* Support "EUR" even if rates JSON uses "EURO"
normalizeCurrency(c) == IF c = "EUR" THEN "EURO" ELSE c

\* a parsed JSON body: an object with the members m, or null
Table(m) == [k |-> "obj", m |-> m]
NullTable == [k |-> "null", m |-> [c \in {} |-> Undef]]

\* rates[c]
Lookup(rates, c) == IF c \in DOMAIN rates.m THEN rates.m[c] ELSE Undef

Ok(v) == [err |-> "none", v |-> v]
Throw(e) == [err |-> e, v |-> Undef]

convertNoNormalize(sum, fromCurrency, toCurrency, rates) ==
    LET n == ToNumber(sum)
    IN  IF ~IsFinite(n) THEN Ok(Zero)
        ELSE IF fromCurrency = toCurrency THEN Ok(n)
        ELSE IF rates.k = "null" THEN Throw("TypeError")
        ELSE IF ~IsNumber(Lookup(rates, fromCurrency)) \/ ~IsNumber(Lookup(rates, toCurrency))
             THEN Throw("UnsupportedCurrency")
        ELSE Ok(Mul(Div(n, Lookup(rates, fromCurrency)), Lookup(rates, toCurrency)))

convertInverted(sum, fromCurrency, toCurrency, rates) ==
    LET from == normalizeCurrency(fromCurrency)
        to == normalizeCurrency(toCurrency)
        n == ToNumber(sum)
    IN  IF ~IsFinite(n) THEN Ok(Zero)
        ELSE IF from = to THEN Ok(n)
        ELSE IF rates.k = "null" THEN Throw("TypeError")
        ELSE IF ~IsNumber(Lookup(rates, from)) \/ ~IsNumber(Lookup(rates, to))
             THEN Throw("UnsupportedCurrency")
        ELSE Ok(Div(Mul(n, Lookup(rates, from)), Lookup(rates, to)))

convertSkipsUnknown(sum, fromCurrency, toCurrency, rates) ==
    LET from == normalizeCurrency(fromCurrency)
        to == normalizeCurrency(toCurrency)
        n == ToNumber(sum)
    IN  IF ~IsFinite(n) THEN Ok(Zero)
        ELSE IF from = to THEN Ok(n)
        ELSE IF rates.k = "null" THEN Throw("TypeError")
        ELSE IF ~IsNumber(Lookup(rates, from)) \/ ~IsNumber(Lookup(rates, to))
             THEN Ok(n)
        ELSE Ok(Mul(Div(n, Lookup(rates, from)), Lookup(rates, to)))

convertLooksUpFirst(sum, fromCurrency, toCurrency, rates) ==
    LET from == normalizeCurrency(fromCurrency)
        to == normalizeCurrency(toCurrency)
        n == ToNumber(sum)
    IN  IF from = to THEN Ok(n)
        ELSE IF rates.k = "null" THEN Throw("TypeError")
        ELSE IF ~IsNumber(Lookup(rates, from)) \/ ~IsNumber(Lookup(rates, to))
             THEN Throw("UnsupportedCurrency")
        ELSE IF ~IsFinite(n) THEN Ok(Zero)
        ELSE Ok(Mul(Div(n, Lookup(rates, from)), Lookup(rates, to)))

\* convert(sum, fromCurrency, toCurrency, rates): a number, or the error thrown
convert(sum, fromCurrency, toCurrency, rates) ==
    LET from == normalizeCurrency(fromCurrency)
        to == normalizeCurrency(toCurrency)
        n == ToNumber(sum)
        fromRate == Lookup(rates, from)
        toRate == Lookup(rates, to)
    IN  IF ~IsFinite(n) THEN Ok(Zero)
        ELSE IF from = to THEN Ok(n)
        ELSE IF rates.k = "null" THEN Throw("TypeError")   \* rates[from] of null
        ELSE IF ~IsNumber(fromRate) \/ ~IsNumber(toRate)
             THEN Throw("UnsupportedCurrency")
        ELSE Ok(Mul(Div(n, fromRate), toRate))

(***************************************************************************)
(* Bounds and the inputs the environment draws from                        *)
(***************************************************************************)
MaxRecords == 2      \* records the ledger holds at most
MaxConns == 2        \* connections and open requests at once, over all tabs
MonthsPerYear == 12  \* for (let m = 1; m <= 12; m++)
AppVersion == 1      \* openCostsDB("costsdb", 1) of App.jsx
BumpedVersion == 2   \* openCostsDB("costsdb", 2), the bump the README describes
Versions == {AppVersion, BumpedVersion}

\* the instants at which addCost can run: the UTC fields toISOString()
\* prints, and the offset of local time from UTC, in hours
Instants ==
    << [utc |-> [y |-> 2025, m |-> 12, d |-> 31, h |-> 23], off |-> 2],
       [utc |-> [y |-> 2026, m |-> 2, d |-> 1, h |-> 2], off |-> -5],
       [utc |-> [y |-> 2026, m |-> 2, d |-> 14, h |-> 12], off |-> 2] >>

Cost(sum, currency, category, description) ==
    [sum |-> sum, currency |-> currency, category |-> category,
     description |-> description]

\* the objects handed to addCost
CostInputs ==
    { Cost(Int2Num(100), Str("USD"), Str("Food"), Str("lunch")),
      Cost(Int2Num(340), Str("ILS"), Str("Food"), Str("dinner")),
      Cost(Str("10"), Str("EURO"), Str(""), Str("taxi")),
      Cost(Str("abc"), Str("USD"), Str(""), Str("typo")),
      Cost(Int2Num(10), Str("XXX"), Undef, Undef) }

ReportYears == {2026}
ReportMonths == {1, 5}
TargetCurrencies == {"USD", "ILS", "EUR"}

SampleRates ==
    Table([c \in {"USD", "GBP", "EURO", "ILS"} |->
        CASE c = "USD" -> Int2Num(1)
          [] c = "GBP" -> Num(6, 10)
          [] c = "EURO" -> Num(7, 10)
          [] c = "ILS" -> Num(34, 10)])

\* a table without ILS and with EURO as the currency whose rate is 1
PartialRates ==
    Table([c \in {"USD", "EURO"} |->
        CASE c = "USD" -> Num(5, 4)
          [] c = "EURO" -> Int2Num(1)])

Response(ok, parses, table) == [ok |-> ok, parses |-> parses, table |-> table]

\* what the rate endpoint can answer: a table, a non-success status, a body
\* that is not JSON
Responses ==
    { Response(TRUE, TRUE, SampleRates), Response(TRUE, TRUE, PartialRates),
      Response(FALSE, TRUE, NullTable), Response(TRUE, FALSE, NullTable) }

(***************************************************************************)
(* Dates                                                                   *)
(***************************************************************************)
IsLeap(y) == (y % 4 = 0 /\ y % 100 # 0) \/ y % 400 = 0

DaysInMonth(y, m) ==
    IF m = 2 THEN (IF IsLeap(y) THEN 29 ELSE 28)
    ELSE IF m \in {4, 6, 9, 11} THEN 30 ELSE 31

\* the local calendar fields of an instant: getFullYear(), getMonth() + 1,
\* getDate()
LocalDate(t) ==
    LET h == t.utc.h + t.off
        u == t.utc
    IN  IF h >= 24 THEN
            IF u.d < DaysInMonth(u.y, u.m) THEN [y |-> u.y, m |-> u.m, d |-> u.d + 1]
            ELSE IF u.m < 12 THEN [y |-> u.y, m |-> u.m + 1, d |-> 1]
            ELSE [y |-> u.y + 1, m |-> 1, d |-> 1]
        ELSE IF h < 0 THEN
            IF u.d > 1 THEN [y |-> u.y, m |-> u.m, d |-> u.d - 1]
            ELSE IF u.m > 1 THEN [y |-> u.y, m |-> u.m - 1, d |-> DaysInMonth(u.y, u.m - 1)]
            ELSE [y |-> u.y - 1, m |-> 12, d |-> 31]
        ELSE [y |-> u.y, m |-> u.m, d |-> u.d]

(***************************************************************************)
(* State                                                                   *)
(***************************************************************************)
VARIABLES
    db,        \* the database "costsdb": its version (0: not created yet), its
               \* object stores and their indexes
    ledger,    \* the records of the costs store, in key order
    conns,     \* connections to the database that are open
    opens,     \* the openCostsDB calls in flight, oldest first
    clock,     \* the current instant, an index into Instants
    calls,     \* the report calls in flight, one per caller
    pure,      \* a call of the pure function convert: its arguments and result
    added,     \* what the latest addCost call resolved to
    form,      \* the entry form: its four fields and its status message
    views,     \* the status messages of the report view and the chart view
    storage,   \* localStorage: the item "ratesUrl"
    settings   \* the settings page: the text of its field and its status message

vars == <<db, ledger, conns, opens, clock, calls, pure, added, form, views, storage,
          settings>>

Callers == {"report", "charts"}

IdleCall ==
    [op |-> "none", pc |-> "idle", y |-> 0, m |-> 0, cur |-> "", asOf |-> 0,
     items |-> <<>>, fetched |-> FALSE, resp |-> Response(FALSE, FALSE, NullTable),
     results |-> <<>>, err |-> "none", url |-> ""]

NoPure == [pc |-> "none", sum |-> Undef, from |-> "", to |-> "", rates |-> NullTable,
           out |-> Throw("none")]

\* the entry form as it is mounted: useState(""), useState("USD"), useState(null)
EmptyForm ==
    [sum |-> "", currency |-> "USD", category |-> "", description |-> "",
     status |-> "none"]

\* the report view and the chart view as they are mounted: useState(null)
NoViews == [c \in Callers |-> "none"]

\* localStorage.getItem(key) of an item: null when it is not set
NoItem == [set |-> FALSE, value |-> ""]
Item(v) == [set |-> TRUE, value |-> v]

(***************************************************************************)
(* The rate endpoint                                                       *)
(***************************************************************************)
defaultRatesUrl == "/rates.json"
OLD_NETLIFY_URL == "https://singular-pika-362948.netlify.app/rates.json"

\* t.trim(), for the texts of the model: white space at both ends is dropped
trim(t) ==
    CASE t = "   " -> ""
      [] t = " /my-rates.json " -> "/my-rates.json"
      [] t = " Food " -> "Food"
      [] t = " lunch " -> "lunch"
      [] OTHER -> t

fetchUrlUntrimmed(item) ==
    LET url == IF item.set THEN item.value ELSE ""
    IN  IF url = "" THEN defaultRatesUrl ELSE url

\* the url fetchRates asks: (localStorage.getItem(ratesKey) || "").trim(), and
\* the default when that is empty
fetchUrl(item) ==
    LET url == trim(IF item.set THEN item.value ELSE "")
    IN  IF url = "" THEN defaultRatesUrl ELSE url

(***************************************************************************)
(* The ledger store                                                        *)
(***************************************************************************)
\* index.getAll([y, m]) on the year_month index
getAll(records, y, m) ==
    SelectSeq(records, LAMBDA r : r.year = y /\ r.month = m)

costToSaveZeroBasedMonth(cost, now, id) ==
    [id |-> id,
     sum |-> ToNumber(cost.sum),
     currency |-> ToStr(cost.currency),
     category |-> ToStr(cost.category),
     description |-> ToStr(cost.description),
     createdAt |-> now.utc,
     year |-> LocalDate(now).y,
     month |-> LocalDate(now).m - 1,
     day |-> LocalDate(now).d]

\* the object addCost stores, with the key the store generates for it
costToSave(cost, now, id) ==
    [id |-> id,
     sum |-> ToNumber(cost.sum),
     currency |-> ToStr(cost.currency),
     category |-> ToStr(cost.category),
     description |-> ToStr(cost.description),
     createdAt |-> now.utc,
     year |-> LocalDate(now).y,
     month |-> LocalDate(now).m,
     day |-> LocalDate(now).d]

addCostResultStored(saved) == saved

\* what addCost resolves to
addCostResult(saved) ==
    [sum |-> saved.sum, currency |-> saved.currency, category |-> saved.category,
     description |-> saved.description]

\* onupgradeneeded: the store and its index are created when the store is absent
upgradeDropsStore(d, l, version) ==
    [db |-> [version |-> version, stores |-> {defaultStore},
             indexes |-> {<<defaultStore, "year_month">>}],
     ledger |-> <<>>]

upgradeIndexAtFirstVersion(d, l, version) ==
    IF defaultStore \notin d.stores
    THEN [db |-> [version |-> version, stores |-> d.stores \cup {defaultStore},
                  indexes |-> IF version = AppVersion
                              THEN d.indexes \cup {<<defaultStore, "year_month">>}
                              ELSE d.indexes],
          ledger |-> <<>>]
    ELSE [db |-> [d EXCEPT !.version = version], ledger |-> l]

upgradeClearsOnBump(d, l, version) ==
    IF defaultStore \notin d.stores
    THEN [db |-> [version |-> version, stores |-> d.stores \cup {defaultStore},
                  indexes |-> d.indexes \cup {<<defaultStore, "year_month">>}],
          ledger |-> <<>>]
    ELSE [db |-> [d EXCEPT !.version = version], ledger |-> <<>>]

upgrade(d, l, version) ==
    IF defaultStore \notin d.stores
    THEN [db |-> [version |-> version, stores |-> d.stores \cup {defaultStore},
                  indexes |-> d.indexes \cup {<<defaultStore, "year_month">>}],
          ledger |-> <<>>]
    ELSE [db |-> [d EXCEPT !.version = version], ledger |-> l]

(***************************************************************************)
(* The report engine                                                       *)
(***************************************************************************)
\* a JavaScript number used as a condition: 0 and NaN are falsy
Truthy(v) == ~(v.k = "nan" \/ (v.k = "num" /\ v.n = 0))

\* v || 0
OrZero(v) == IF Truthy(v) THEN v ELSE Zero

needsRatesNoAlias(items, targetCurrency) ==
    \E i \in 1..Len(items) : items[i].currency # targetCurrency

\* items.some((c) => normalizeCurrency(c.currency) !== targetCurrency)
needsRates(items, targetCurrency) ==
    \E i \in 1..Len(items) : normalizeCurrency(items[i].currency) # targetCurrency

\* the converted amount of one record: convert(...) when rates are needed,
\* the stored sum otherwise
converted(c, needs, targetCurrency, rates) ==
    IF needs THEN convert(ToNumber(c.sum), c.currency, targetCurrency, rates)
    ELSE Ok(ToNumber(c.sum))

\* Number(c.day) || new Date(String(c.createdAt || "")).getDate()
rowDay(c, off) ==
    IF c.day # 0 THEN c.day ELSE LocalDate([utc |-> c.createdAt, off |-> off]).d

rowShowsConverted(c, sumInTarget, targetCurrency, off) ==
    [sum |-> sumInTarget, currency |-> targetCurrency, category |-> c.category,
     description |-> c.description, Date |-> [day |-> rowDay(c, off)],
     sumInTarget |-> sumInTarget, targetCurrency |-> targetCurrency]

\* one row of a report
row(c, sumInTarget, targetCurrency, off) ==
    [sum |-> ToNumber(c.sum), currency |-> c.currency, category |-> c.category,
     description |-> c.description, Date |-> [day |-> rowDay(c, off)],
     sumInTarget |-> sumInTarget, targetCurrency |-> targetCurrency]

RECURSIVE totalValueRoundsRows(_, _)
totalValueRoundsRows(costs, n) ==
    IF n = 0 THEN Zero
    ELSE LET acc == totalValueRoundsRows(costs, n - 1)
             v == costs[n].sumInTarget
         IN  IF IsFinite(v) THEN Round2(Add(acc, Round2(v))) ELSE acc

\* costs.reduce((acc, c) => Number.isFinite(v) ? acc + v : acc, 0) over the
\* first n rows
RECURSIVE totalValue(_, _)
totalValue(costs, n) ==
    IF n = 0 THEN Zero
    ELSE LET acc == totalValue(costs, n - 1)
             v == costs[n].sumInTarget
         IN  IF IsFinite(v) THEN Add(acc, v) ELSE acc

\* the first record whose conversion throws, 0 when none does
firstThrow(items, needs, targetCurrency, rates) ==
    LET bad == {i \in 1..Len(items) :
                    converted(items[i], needs, targetCurrency, rates).err # "none"}
    IN  IF bad = {} THEN 0 ELSE CHOOSE i \in bad : \A j \in bad : i <= j

\* what getReport computes from the records read and the rates fetched (the
\* null table when none were needed): the report, or the error thrown
getReport(y, m, currency, items, rates, off) ==
    LET targetCurrency == normalizeCurrency(currency)
        needs == needsRates(items, targetCurrency)
        bad == firstThrow(items, needs, targetCurrency, rates)
        costs == [i \in 1..Len(items) |->
                    row(items[i], converted(items[i], needs, targetCurrency, rates).v,
                        targetCurrency, off)]
    IN  IF bad # 0
        THEN Throw(converted(items[bad], needs, targetCurrency, rates).err)
        ELSE Ok([year |-> y, month |-> m, costs |-> costs,
                 total |-> [currency |-> targetCurrency,
                            total |-> totalValue(costs, Len(costs))]])

\* String(c.category || "Other")
categoryLabel(c) == IF c.category = "" THEN "Other" ELSE c.category

mapAddOverwrites(map, cat, value) ==
    IF \E i \in 1..Len(map) : map[i].category = cat
    THEN [i \in 1..Len(map) |->
            IF map[i].category = cat
            THEN [category |-> cat, total |-> value]
            ELSE map[i]]
    ELSE Append(map, [category |-> cat, total |-> Add(Zero, value)])

\* map.set(cat, (map.get(cat) || 0) + value) on a Map kept as the sequence of
\* its entries, in insertion order
mapAdd(map, cat, value) ==
    IF \E i \in 1..Len(map) : map[i].category = cat
    THEN [i \in 1..Len(map) |->
            IF map[i].category = cat
            THEN [category |-> cat, total |-> Add(OrZero(map[i].total), value)]
            ELSE map[i]]
    ELSE Append(map, [category |-> cat, total |-> Add(Zero, value)])

\* the loop of getCategoryTotals over the first n records; a record whose sum
\* is not finite is skipped
RECURSIVE categoryMap(_, _, _, _, _)
categoryMap(items, n, needs, targetCurrency, rates) ==
    IF n = 0 THEN <<>>
    ELSE LET map == categoryMap(items, n - 1, needs, targetCurrency, rates)
             c == items[n]
         IN  IF ~IsFinite(ToNumber(c.sum)) THEN map
             ELSE mapAdd(map, categoryLabel(c),
                         converted(c, needs, targetCurrency, rates).v)

\* what getCategoryTotals computes from the records read and the rates fetched
getCategoryTotals(currency, items, rates) ==
    LET targetCurrency == normalizeCurrency(currency)
        needs == needsRates(items, targetCurrency)
        finite == SelectSeq(items, LAMBDA c : IsFinite(ToNumber(c.sum)))
        bad == firstThrow(finite, needs, targetCurrency, rates)
    IN  IF Len(items) = 0 THEN Ok(<<>>)
        ELSE IF bad # 0
        THEN Throw(converted(finite[bad], needs, targetCurrency, rates).err)
        ELSE Ok(categoryMap(items, Len(items), needs, targetCurrency, rates))

(***************************************************************************)
(* The vanilla library (src/vanilla-test/idb.js)                           *)
(***************************************************************************)
\* Number.isInteger(v)
IsInteger(v) == v.k = "num" /\ v.d = 1

\* the vanilla convert: the amount is tested before the codes are normalized
vanillaConvert(sum, fromCurrency, toCurrency, rates) ==
    LET amount == ToNumber(sum)
        from == normalizeCurrency(fromCurrency)
        to == normalizeCurrency(toCurrency)
        fromRate == Lookup(rates, from)
        toRate == Lookup(rates, to)
    IN  IF ~IsFinite(amount) THEN Ok(Zero)
        ELSE IF from = to THEN Ok(amount)
        ELSE IF rates.k = "null" THEN Throw("TypeError")
        ELSE IF ~IsNumber(fromRate) \/ ~IsNumber(toRate)
             THEN Throw("UnsupportedCurrency")
        ELSE Ok(Mul(Div(amount, fromRate), toRate))

\* one row of a vanilla report: the four fields and Date.day, nothing else
vanillaRow(c, off) ==
    [sum |-> ToNumber(c.sum), currency |-> c.currency, category |-> c.category,
     description |-> c.description, Date |-> [day |-> rowDay(c, off)]]

\* what the reduce of the vanilla getReport adds for one record: nothing when
\* the sum is not finite, the sum when no rates are needed, convert(...)
\* otherwise
vanillaAmount(c, needs, targetCurrency, rates) ==
    IF ~IsFinite(ToNumber(c.sum)) THEN Ok(Zero)
    ELSE IF ~needs THEN Ok(ToNumber(c.sum))
    ELSE vanillaConvert(ToNumber(c.sum), c.currency, targetCurrency, rates)

\* items.reduce(...) over the first n records: the amounts are added as they
\* are
RECURSIVE vanillaTotal(_, _, _, _, _)
vanillaTotal(items, n, needs, targetCurrency, rates) ==
    IF n = 0 THEN Zero
    ELSE Add(vanillaTotal(items, n - 1, needs, targetCurrency, rates),
             vanillaAmount(items[n], needs, targetCurrency, rates).v)

\* what the vanilla getReport computes from the records read and the rates
\* fetched: the report, or the error thrown
vanillaGetReport(y, m, currency, items, rates, off) ==
    LET targetCurrency == normalizeCurrency(currency)
        needs == needsRates(items, targetCurrency)
        bad == {i \in 1..Len(items) :
                    vanillaAmount(items[i], needs, targetCurrency, rates).err # "none"}
        first == CHOOSE i \in bad : \A j \in bad : i <= j
    IN  IF bad # {}
        THEN Throw(vanillaAmount(items[first], needs, targetCurrency, rates).err)
        ELSE Ok([year |-> y, month |-> m,
                 costs |-> [i \in 1..Len(items) |-> vanillaRow(items[i], off)],
                 total |-> [currency |-> targetCurrency,
                            total |-> vanillaTotal(items, Len(items), needs,
                                                   targetCurrency, rates)]])

(***************************************************************************)
(* The settings page                                                       *)
(***************************************************************************)
\* the effect that runs when the settings page is mounted: the field shows
\* the stored url, or the default when none is stored; the old Netlify url is
\* replaced by the default in the storage too
mountSettings(item) ==
    LET saved == trim(IF item.set THEN item.value ELSE "")
    IN  IF saved = ""
        THEN [storage |-> item, settings |-> [url |-> defaultRatesUrl, status |-> "none"]]
        ELSE IF saved = OLD_NETLIFY_URL
        THEN [storage |-> Item(defaultRatesUrl),
              settings |-> [url |-> defaultRatesUrl, status |-> "migrated"]]
        ELSE [storage |-> item, settings |-> [url |-> saved, status |-> "none"]]

(***************************************************************************)
(* The calls, step by step. A call record holds the locals of the async    *)
(* function across its awaits: pc "query" is the await of index.getAll,    *)
(* pc "fetch" the await of fetchRates.                                     *)
(***************************************************************************)
\* db.transaction(...).index("year_month").getAll([y, m]) is issued: the
\* transaction reads the store as it is now
startQuery(k, y, m, records) ==
    [k EXCEPT !.pc = "query", !.y = y, !.m = m, !.asOf = Len(records),
              !.items = getAll(records, y, m), !.fetched = FALSE]

\* the call settles: resolved (pc "done") or rejected (pc "failed")
resolve(k) == [k EXCEPT !.pc = "done"]
reject(k, e) == [k EXCEPT !.pc = "failed", !.err = e]

yearStepStopsEarly(k, r, records) ==
    LET pushed == [k EXCEPT !.results = Append(k.results, OrZero(ToNumber(r.total.total)))]
    IN  IF k.m + 1 < MonthsPerYear
        THEN startQuery(pushed, k.y, k.m + 1, records)
        ELSE resolve(pushed)

\* getYearMonthlyTotals: results.push(Number(r.total.total) || 0), then the
\* next month's getReport, or return results after month 12
yearStep(k, r, records) ==
    LET pushed == [k EXCEPT !.results = Append(k.results, OrZero(ToNumber(r.total.total)))]
    IN  IF k.m + 1 <= MonthsPerYear
        THEN startQuery(pushed, k.y, k.m + 1, records)
        ELSE resolve(pushed)

\* the rest of the call once the rates are at hand (the null table when none
\* were needed)
finish(k, rates, records, off) ==
    LET r == IF k.op = "getCategoryTotals"
             THEN getCategoryTotals(k.cur, k.items, rates)
             ELSE IF k.op = "vanilla.getReport"
             THEN vanillaGetReport(k.y, k.m, k.cur, k.items, rates, off)
             ELSE getReport(k.y, k.m, k.cur, k.items, rates, off)
    IN  IF r.err # "none" THEN reject(k, r.err)
        ELSE IF k.op = "getYearMonthlyTotals" THEN yearStep(k, r.v, records)
        ELSE resolve(k)

afterQueryRawTarget(k, records, off) ==
    IF k.op = "getCategoryTotals" /\ Len(k.items) = 0 THEN resolve(k)
    ELSE IF needsRates(k.items, k.cur)
    THEN [k EXCEPT !.pc = "fetch", !.fetched = TRUE, !.url = fetchUrl(storage)]
    ELSE finish(k, NullTable, records, off)

afterQueryAlwaysFetches(k, records, off) ==
    IF k.op = "getCategoryTotals" /\ Len(k.items) = 0 THEN resolve(k)
    ELSE [k EXCEPT !.pc = "fetch", !.fetched = TRUE, !.url = fetchUrl(storage)]

\* the call resumes with the records read: it fetches the rates when some
\* record is not in the target currency
afterQuery(k, records, off) ==
    IF k.op = "getCategoryTotals" /\ Len(k.items) = 0 THEN resolve(k)
    ELSE IF needsRates(k.items, normalizeCurrency(k.cur))
    THEN [k EXCEPT !.pc = "fetch", !.fetched = TRUE, !.url = fetchUrl(storage)]
    ELSE finish(k, NullTable, records, off)

afterFetchFallsBack(k, resp, records, off) ==
    IF ~resp.ok \/ ~resp.parses
    THEN finish([k EXCEPT !.resp = resp, !.items = <<>>], NullTable, records, off)
    ELSE finish([k EXCEPT !.resp = resp], resp.table, records, off)

afterFetchRereads(k, resp, records, off) ==
    IF ~resp.ok THEN reject([k EXCEPT !.resp = resp], "RatesFetchFailed")
    ELSE IF ~resp.parses THEN reject([k EXCEPT !.resp = resp], "RatesParseFailed")
    ELSE finish([k EXCEPT !.resp = resp, !.items = getAll(records, k.y, k.m)],
                resp.table, records, off)

\* the call resumes with the endpoint's answer: fetchRates throws on a
\* non-success status, res.json() rejects on a body that is not JSON
afterFetch(k, resp, records, off) ==
    IF ~resp.ok THEN reject([k EXCEPT !.resp = resp], "RatesFetchFailed")
    ELSE IF ~resp.parses THEN reject([k EXCEPT !.resp = resp], "RatesParseFailed")
    ELSE finish([k EXCEPT !.resp = resp], resp.table, records, off)

\* the value a resolved call resolved to
returned(k, off) ==
    CASE k.op = "getReport" -> getReport(k.y, k.m, k.cur, k.items, k.resp.table, off).v
      [] k.op = "getCategoryTotals" -> getCategoryTotals(k.cur, k.items, k.resp.table).v
      [] k.op = "vanilla.getReport" ->
            vanillaGetReport(k.y, k.m, k.cur, k.items, k.resp.table, off).v
      [] k.op = "getYearMonthlyTotals" -> k.results

(***************************************************************************)
(* Actions                                                                 *)
(***************************************************************************)
Now == Instants[clock]

\* openCostsDB(name, version): indexedDB.open queues the request
OpenRequest(version) ==
    /\ conns + Len(opens) < MaxConns
    /\ opens' = Append(opens, [version |-> version, pc |-> "pending"])
    /\ UNCHANGED <<db, ledger, conns, clock, calls, pure, added, form, views, storage, settings>>

\* the engine runs the oldest open request: a lower version than the stored
\* one is an error, a higher one upgrades once no other connection is open
\* and is blocked until then, the stored version succeeds
OpenRun ==
    /\ opens # <<>>
    /\ Head(opens).pc \in {"pending", "blocked"}
    /\ LET req == Head(opens)
           up == upgrade(db, ledger, req.version)
       IN  IF req.version < db.version
           THEN /\ opens' = <<[req EXCEPT !.pc = "failed"]>> \o Tail(opens)
                /\ UNCHANGED <<db, ledger, conns>>
           ELSE IF req.version > db.version /\ conns > 0
           THEN /\ req.pc = "pending"
                /\ opens' = <<[req EXCEPT !.pc = "blocked"]>> \o Tail(opens)
                /\ UNCHANGED <<db, ledger, conns>>
           ELSE IF req.version > db.version
           THEN /\ db' = up.db
                /\ ledger' = up.ledger
                /\ conns' = conns + 1
                /\ opens' = <<[req EXCEPT !.pc = "done"]>> \o Tail(opens)
           ELSE /\ conns' = conns + 1
                /\ opens' = <<[req EXCEPT !.pc = "done"]>> \o Tail(opens)
                /\ UNCHANGED <<db, ledger>>
    /\ UNCHANGED <<clock, calls, pure, added, form, views, storage, settings>>

\* the promise of openCostsDB has settled and its caller goes on
OpenReturn ==
    /\ opens # <<>>
    /\ Head(opens).pc \in {"done", "failed"}
    /\ opens' = Tail(opens)
    /\ UNCHANGED <<db, ledger, conns, clock, calls, pure, added, form, views, storage, settings>>

\* the pages are reloaded: their connections close, their calls are gone
Reload ==
    /\ conns > 0 \/ opens # <<>>
    /\ conns' = 0
    /\ opens' = <<>>
    /\ calls' = [c \in Callers |-> IdleCall]
    /\ added' = Undef
    /\ form' = EmptyForm
    /\ views' = NoViews
    /\ storage' = mountSettings(storage).storage
    /\ settings' = mountSettings(storage).settings
    /\ UNCHANGED <<db, ledger, clock, pure>>

\* openCostsDB has resolved for some caller: a wrapper object with the four
\* operations is in the page's hands
Ready == conns > Cardinality({i \in 1..Len(opens) : opens[i].pc = "done"})

\* addCost(cost) at instant t (time does not go back): the record is stored
\* and the call resolves
addCost(cost, t) ==
    /\ Len(ledger) < MaxRecords
    /\ t >= clock
    /\ clock' = t
    /\ ledger' = Append(ledger, costToSave(cost, Instants[t], Len(ledger) + 1))
    /\ added' = addCostResult(costToSave(cost, Instants[t], Len(ledger) + 1))

\* addCost(cost) is called on an open database
AddCost(cost, t) ==
    /\ Ready
    /\ addCost(cost, t)
    /\ UNCHANGED <<db, conns, opens, calls, pure, form, views, storage, settings>>

\* caller c calls getReport, getCategoryTotals or getYearMonthlyTotals: the
\* call runs up to its first await
start(c, op, y, m, cur) ==
    /\ calls[c].pc = "idle"
    /\ calls' = [calls EXCEPT ![c] =
            startQuery([IdleCall EXCEPT !.op = op, !.cur = cur], y,
                       IF op = "getYearMonthlyTotals" THEN 1 ELSE m, ledger)]

\* getReport, getCategoryTotals or getYearMonthlyTotals is called on an open
\* database
Start(c, op, y, m, cur) ==
    /\ Ready
    /\ start(c, op, y, m, cur)
    /\ UNCHANGED <<db, ledger, conns, opens, clock, pure, added, form, views, storage, settings>>

\* the vanilla getReport is called on an open database: a year or month
\* that is not an integer rejects the call before anything is read
VanillaStart(c, year, month, cur) ==
    /\ Ready
    /\ calls[c].pc = "idle"
    /\ LET y == ToNumber(year)
           m == ToNumber(month)
           k == [IdleCall EXCEPT !.op = "vanilla.getReport", !.cur = cur]
       IN  calls' = [calls EXCEPT ![c] =
                IF ~IsInteger(y) \/ ~IsInteger(m)
                THEN reject(k, "InvalidYearMonth")
                ELSE startQuery(k, y.n, m.n, ledger)]
    /\ UNCHANGED <<db, ledger, conns, opens, clock, pure, added, form, views, storage, settings>>

\* the records read arrive
QueryDone(c) ==
    /\ calls[c].pc = "query"
    /\ calls' = [calls EXCEPT ![c] = afterQuery(calls[c], ledger, Now.off)]
    /\ UNCHANGED <<db, ledger, conns, opens, clock, pure, added, form, views, storage, settings>>

FetchDonePutsBack(c, resp) ==
    /\ calls[c].pc = "fetch"
    /\ calls' = [calls EXCEPT ![c] = afterFetch(calls[c], resp, ledger, Now.off)]
    /\ ledger' = [i \in 1..Len(ledger) |->
            LET v == convert(ledger[i].sum, ledger[i].currency, calls[c].cur, resp.table)
            IN  IF /\ i <= calls[c].asOf
                   /\ ledger[i].year = calls[c].y /\ ledger[i].month = calls[c].m
                   /\ resp.ok /\ resp.parses /\ v.err = "none"
                THEN [ledger[i] EXCEPT !.sum = v.v]
                ELSE ledger[i]]
    /\ UNCHANGED <<db, conns, opens, clock, pure, added, form, views, storage, settings>>

FetchDoneShared(c, resp) ==
    /\ calls[c].pc = "fetch"
    /\ calls' = [d \in Callers |->
            IF calls[d].pc = "fetch"
            THEN afterFetch(calls[d], resp, ledger, Now.off)
            ELSE calls[d]]
    /\ UNCHANGED <<db, ledger, conns, opens, clock, pure, added, form, views, storage, settings>>

\* the rate endpoint answers
FetchDone(c, resp) ==
    /\ calls[c].pc = "fetch"
    /\ calls' = [calls EXCEPT ![c] = afterFetch(calls[c], resp, ledger, Now.off)]
    /\ UNCHANGED <<db, ledger, conns, opens, clock, pure, added, form, views, storage, settings>>

\* the caller has taken the result or the error
Return(c) ==
    /\ calls[c].pc \in {"done", "failed"}
    /\ calls' = [calls EXCEPT ![c] = IdleCall]
    /\ UNCHANGED <<db, ledger, conns, opens, clock, pure, added, form, views, storage, settings>>

(***************************************************************************)
(* The pages: the entry form, the report view and the chart view           *)
(***************************************************************************)
Fields(sum, currency, category, description) ==
    [sum |-> sum, currency |-> currency, category |-> category,
     description |-> description]

\* sumNumber <= 0
NotPositive(v) == (v.k = "num" /\ v.n <= 0) \/ (v.k = "inf" /\ v.n < 0)

\* the user types into the four fields of the entry form
Fill(f) ==
    /\ form' = [form EXCEPT !.sum = f.sum, !.currency = f.currency,
                            !.category = f.category, !.description = f.description]
    /\ UNCHANGED <<db, ledger, conns, opens, clock, calls, pure, added, views, storage, settings>>

\* onSubmit of the entry form, at instant t
Submit(t) ==
    LET sumNumber == ToNumber(Str(form.sum)) IN
    /\ IF ~Ready
       THEN /\ form' = [form EXCEPT !.status = "not-ready"]
            /\ UNCHANGED <<ledger, clock, added>>
       ELSE IF form.sum = "" \/ sumNumber.k = "nan" \/ NotPositive(sumNumber)
       THEN /\ form' = [form EXCEPT !.status = "invalid-sum"]
            /\ UNCHANGED <<ledger, clock, added>>
       ELSE IF trim(form.category) = ""
       THEN /\ form' = [form EXCEPT !.status = "invalid-category"]
            /\ UNCHANGED <<ledger, clock, added>>
       ELSE /\ addCost(Cost(sumNumber, Str(form.currency), Str(trim(form.category)),
                            Str(trim(form.description))), t)
            /\ form' = [EmptyForm EXCEPT !.status = "success"]
    /\ UNCHANGED <<db, conns, opens, calls, pure, views, storage, settings>>

\* a handler of a view asks for op: "Database not ready yet." while the App
\* has no wrapper, the call otherwise
request(c, op, y, m, cur) ==
    /\ IF ~Ready
       THEN /\ views' = [views EXCEPT ![c] = "not-ready"]
            /\ UNCHANGED calls
       ELSE /\ start(c, op, y, m, cur)
            /\ views' = [views EXCEPT ![c] = "none"]
    /\ UNCHANGED <<db, ledger, conns, opens, clock, pure, added, form, storage, settings>>

OnGetReportUnchecked(y, m, cur) ==
    /\ IF ~Ready
       THEN /\ views' = [views EXCEPT !["report"] = "error"]
            /\ UNCHANGED calls
       ELSE /\ start("report", "getReport", y, m, cur)
            /\ views' = [views EXCEPT !["report"] = "none"]
    /\ UNCHANGED <<db, ledger, conns, opens, clock, pure, added, form, storage, settings>>

\* onGetReport of the report view
OnGetReport(y, m, cur) == request("report", "getReport", y, m, cur)

\* onShowPie of the chart view
OnShowPie(y, m, cur) == request("charts", "getCategoryTotals", y, m, cur)

\* onShowBar of the chart view
OnShowBar(y, cur) == request("charts", "getYearMonthlyTotals", y, 1, cur)

\* the handler of a view resumes with the result or the error of its call
Shown(c) ==
    LET k == calls[c] IN
    /\ k.pc \in {"done", "failed"}
    /\ views' = [views EXCEPT ![c] =
            IF k.pc = "failed" THEN "error"
            ELSE IF k.op = "getReport" /\ Len(returned(k, Now.off).costs) = 0 THEN "empty"
            ELSE IF k.op = "getCategoryTotals" /\ Len(returned(k, Now.off)) = 0 THEN "empty"
            ELSE "none"]
    /\ calls' = [calls EXCEPT ![c] = IdleCall]
    /\ UNCHANGED <<db, ledger, conns, opens, clock, pure, added, form, storage, settings>>

\* the user types into the field of the settings page
TypeUrl(text) ==
    /\ settings' = [settings EXCEPT !.url = text]
    /\ UNCHANGED <<db, ledger, conns, opens, clock, calls, pure, added, form, views,
                   storage>>

\* onSave of the settings page
OnSave ==
    LET trimmed == IF trim(settings.url) = "" THEN defaultRatesUrl
                   ELSE trim(settings.url)
    IN  /\ storage' = Item(trimmed)
        /\ settings' = [url |-> trimmed, status |-> "saved"]
        /\ UNCHANGED <<db, ledger, conns, opens, clock, calls, pure, added, form, views>>

\* useLocal of the settings page
UseLocal ==
    /\ storage' = Item(defaultRatesUrl)
    /\ settings' = [url |-> defaultRatesUrl, status |-> "local"]
    /\ UNCHANGED <<db, ledger, conns, opens, clock, calls, pure, added, form, views>>

\* clearSetting of the settings page
ClearSetting ==
    /\ storage' = NoItem
    /\ settings' = [url |-> defaultRatesUrl, status |-> "reset"]
    /\ UNCHANGED <<db, ledger, conns, opens, clock, calls, pure, added, form, views>>

\* convert(sum, from, to, rates) is evaluated
ApplyConvert ==
    /\ pure.pc = "args"
    /\ pure' = [pure EXCEPT !.pc = "done",
                            !.out = convert(pure.sum, pure.from, pure.to, pure.rates)]
    /\ UNCHANGED <<db, ledger, conns, opens, clock, calls, added, form, views, storage, settings>>

(***************************************************************************)
(* Specifications                                                          *)
(***************************************************************************)
\* no database yet
InitAbsent ==
    /\ db = [version |-> 0, stores |-> {}, indexes |-> {}]
    /\ ledger = <<>>
    /\ conns = 0
    /\ opens = <<>>
    /\ clock = 1
    /\ calls = [c \in Callers |-> IdleCall]
    /\ pure = NoPure
    /\ added = Undef
    /\ form = EmptyForm
    /\ views = NoViews
    /\ storage = NoItem
    /\ settings = mountSettings(NoItem).settings

\* openCostsDB("costsdb", 1) has resolved on a fresh database
Init ==
    /\ db = upgrade([version |-> 0, stores |-> {}, indexes |-> {}], <<>>, AppVersion).db
    /\ ledger = <<>>
    /\ conns = 1
    /\ opens = <<>>
    /\ clock = 1
    /\ calls = [c \in Callers |-> IdleCall]
    /\ pure = NoPure
    /\ added = Undef
    /\ form = EmptyForm
    /\ views = NoViews
    /\ storage = NoItem
    /\ settings = mountSettings(NoItem).settings

\* the report engine on an open database
Next ==
    \/ \E cost \in CostInputs, t \in 1..Len(Instants) : AddCost(cost, t)
    \/ \E y \in ReportYears, m \in ReportMonths, cur \in TargetCurrencies :
          \/ Start("report", "getReport", y, m, cur)
          \/ Start("report", "getCategoryTotals", y, m, cur)
    \/ \E y \in ReportYears, cur \in TargetCurrencies :
          Start("report", "getYearMonthlyTotals", y, 1, cur)
    \/ QueryDone("report")
    \/ \E resp \in Responses : FetchDone("report", resp)
    \/ Return("report")

Spec == Init /\ [][Next]_vars

\* the life cycle of the database, with the calls made on it
LifecycleCosts ==
    { Cost(Int2Num(100), Str("USD"), Str("Food"), Str("lunch")),
      Cost(Int2Num(340), Str("ILS"), Str("Food"), Str("dinner")) }

LifecycleResponses ==
    { Response(TRUE, TRUE, SampleRates), Response(FALSE, TRUE, NullTable) }

NextLifecycle ==
    \/ \E v \in Versions : OpenRequest(v)
    \/ OpenRun
    \/ OpenReturn
    \/ Reload
    \/ \E cost \in LifecycleCosts, t \in 1..Len(Instants) : AddCost(cost, t)
    \/ \E op \in {"getReport", "getCategoryTotals", "getYearMonthlyTotals"} :
          Start("report", op, 2026, 1, "USD")
    \/ QueryDone("report")
    \/ \E resp \in LifecycleResponses : FetchDone("report", resp)
    \/ Return("report")

SpecLifecycle == InitAbsent /\ [][NextLifecycle]_vars

\* the report view and the chart view ask for the category totals of one
\* month, one after the other or at the same time
TwiceCosts ==
    { Cost(Int2Num(100), Str("USD"), Str("Food"), Str("lunch")),
      Cost(Int2Num(340), Str("ILS"), Str("Food"), Str("dinner")),
      Cost(Str("10"), Str("EURO"), Str(""), Str("taxi")) }

TwiceCurrencies == {"USD", "ILS"}

TwiceResponses ==
    { Response(TRUE, TRUE, SampleRates), Response(TRUE, TRUE, PartialRates),
      Response(FALSE, TRUE, NullTable) }

NextTwice ==
    \/ \E cost \in TwiceCosts, t \in 1..Len(Instants) : AddCost(cost, t)
    \/ \E c \in Callers, cur \in TwiceCurrencies :
          Start(c, "getCategoryTotals", 2026, 1, cur)
    \/ \E c \in Callers : QueryDone(c)
    \/ \E c \in Callers, resp \in TwiceResponses : FetchDone(c, resp)
    \/ \E c \in Callers : Return(c)

SpecTwice == Init /\ [][NextTwice]_vars

\* the entry form from the mount of the App on
FormInputs ==
    { Fields("10", "USD", " Food ", " lunch "),
      Fields("12.5", "ILS", "Food", ""),
      Fields("Infinity", "USD", "Food", ""),
      Fields("", "USD", "Food", ""),
      Fields("abc", "USD", "Food", ""),
      Fields("-5", "USD", "Food", ""),
      Fields("0", "USD", "Food", ""),
      Fields("10", "USD", "   ", "") }

NextForm ==
    \/ OpenRequest(AppVersion)
    \/ OpenRun
    \/ OpenReturn
    \/ Reload
    \/ \E f \in FormInputs : Fill(f)
    \/ \E t \in 1..Len(Instants) : Submit(t)

SpecForm == InitAbsent /\ [][NextForm]_vars

\* the entry form, the report view and the chart view from the mount of the
\* App on, with one entry and one period
ViewsInputs == { Fields("10", "USD", " Food ", " lunch ") }

NextViews ==
    \/ OpenRequest(AppVersion)
    \/ OpenRun
    \/ OpenReturn
    \/ Reload
    \/ \E f \in ViewsInputs : Fill(f)
    \/ Submit(1)
    \/ OnGetReport(2026, 1, "USD")
    \/ OnShowPie(2026, 1, "USD")
    \/ OnShowBar(2026, "USD")
    \/ \E c \in Callers : QueryDone(c)
    \/ \E c \in Callers : Shown(c)

SpecViews == InitAbsent /\ [][NextViews]_vars

\* the settings page and the rate fetches of the reports. The stored item is
\* shared by everything that runs on the origin: the page starts with no
\* item, or with one that an earlier version of the page or another script
\* has left (a blank one, one with spaces around it, the old Netlify url)
StoredItems ==
    { NoItem, Item(""), Item("   "), Item(" /my-rates.json "), Item(OLD_NETLIFY_URL) }

SettingsCosts == { Cost(Int2Num(340), Str("ILS"), Str("Food"), Str("dinner")) }

\* what is typed into the field of the settings page
SettingsTexts == {"   ", " /my-rates.json "}

InitSettings ==
    /\ db = upgrade([version |-> 0, stores |-> {}, indexes |-> {}], <<>>, AppVersion).db
    /\ ledger = <<>>
    /\ conns = 1
    /\ opens = <<>>
    /\ clock = 1
    /\ calls = [c \in Callers |-> IdleCall]
    /\ pure = NoPure
    /\ added = Undef
    /\ form = EmptyForm
    /\ views = NoViews
    /\ \E item \in StoredItems :
          /\ storage = mountSettings(item).storage
          /\ settings = mountSettings(item).settings

NextSettings ==
    \/ \E text \in SettingsTexts : TypeUrl(text)
    \/ OnSave
    \/ UseLocal
    \/ ClearSetting
    \/ \E cost \in SettingsCosts : AddCost(cost, 2)
    \/ Start("report", "getReport", 2026, 1, "USD")
    \/ Start("charts", "getCategoryTotals", 2026, 1, "USD")
    \/ \E c \in Callers : QueryDone(c)
    \/ \E c \in Callers, resp \in LifecycleResponses : FetchDone(c, resp)
    \/ \E c \in Callers : Return(c)

SpecSettings == InitSettings /\ [][NextSettings]_vars

\* the arguments convert is tried on
ConvertAmounts ==
    { Int2Num(10), Int2Num(340), Num(25, 2), Zero, Int2Num(-5), NaN, Inf(1),
      Str("10"), Str("abc"), Undef }

ConvertCurrencies == {"USD", "ILS", "GBP", "EURO", "EUR", "XXX"}

\* {}, a table whose rates are strings, a table with a rate of 0
EmptyRates == Table([c \in {} |-> Undef])
StringRates == Table([c \in {"USD", "ILS"} |-> IF c = "USD" THEN Str("1") ELSE Str("3.4")])
ZeroRates == Table([c \in {"USD", "ILS"} |-> IF c = "USD" THEN Zero ELSE Num(34, 10)])

ConvertTables ==
    { SampleRates, PartialRates, EmptyRates, StringRates, ZeroRates, NullTable }

InitConvert ==
    /\ db = [version |-> 0, stores |-> {}, indexes |-> {}]
    /\ ledger = <<>>
    /\ conns = 0
    /\ opens = <<>>
    /\ clock = 1
    /\ calls = [c \in Callers |-> IdleCall]
    /\ pure \in [pc : {"args"}, sum : ConvertAmounts, from : ConvertCurrencies,
                 to : ConvertCurrencies, rates : ConvertTables, out : {Throw("none")}]
    /\ added = Undef
    /\ form = EmptyForm
    /\ views = NoViews
    /\ storage = NoItem
    /\ settings = mountSettings(NoItem).settings

SpecConvert == InitConvert /\ [][ApplyConvert]_vars

(***************************************************************************)
(* Properties                                                              *)
(***************************************************************************)
Report(k) == getReport(k.y, k.m, k.cur, k.items, k.resp.table, Now.off).v

RECURSIVE SetSum(_, _)
SetSum(f, S) ==
    IF S = {} THEN Zero
    ELSE LET i == CHOOSE x \in S : TRUE IN Add(f[i], SetSum(f, S \ {i}))

\* the amount of record c in the target currency, by the rule "amount -> USD
\* -> target": the amount times the target's rate over the source's rate
InTarget(c, target, rates) ==
    IF normalizeCurrency(c.currency) = normalizeCurrency(target) THEN c.sum
    ELSE Div(Mul(c.sum, Lookup(rates, normalizeCurrency(target))),
             Lookup(rates, normalizeCurrency(c.currency)))

\* the sum of the amounts of the records with a finite sum, in the target
\* currency
SumInTarget(items, target, rates) ==
    SetSum([i \in 1..Len(items) |-> InTarget(items[i], target, rates)],
           {i \in 1..Len(items) : IsFinite(items[i].sum)})

\* C1: every record addCost stored carries the four fields of an input,
\* coerced by Number and String, and every report that getReport returns for
\* a (year, month) has, for each record with a finite sum stamped with that
\* (year, month) and stored before the call, a row with the record's own
\* sum, currency, category and description.
C1_RoundTrip ==
    /\ \A i \in 1..Len(ledger) : \E cost \in CostInputs :
          /\ ledger[i].sum = ToNumber(cost.sum)
          /\ ledger[i].currency = ToStr(cost.currency)
          /\ ledger[i].category = ToStr(cost.category)
          /\ ledger[i].description = ToStr(cost.description)
    /\ \A c \in Callers :
          LET k == calls[c] IN
          (k.op = "getReport" /\ k.pc = "done") =>
              \A i \in 1..k.asOf :
                  (ledger[i].year = k.y /\ ledger[i].month = k.m
                    /\ IsFinite(ledger[i].sum)) =>
                      \E j \in 1..Len(Report(k).costs) :
                          /\ Report(k).costs[j].sum = ledger[i].sum
                          /\ Report(k).costs[j].currency = ledger[i].currency
                          /\ Report(k).costs[j].category = ledger[i].category
                          /\ Report(k).costs[j].description = ledger[i].description

\* a report that converted a record to another currency has been returned,
\* and a record of the same period was added after the report's query
C1_Witness ==
    LET k == calls["report"] IN
    /\ k.op = "getReport" /\ k.pc = "done" /\ k.fetched
    /\ k.asOf >= 1 /\ k.asOf < Len(ledger)
    /\ ledger[Len(ledger)].year = k.y /\ ledger[Len(ledger)].month = k.m
    /\ \E j \in 1..Len(Report(k).costs) :
          Report(k).costs[j].sumInTarget # Report(k).costs[j].sum

C3_TotalRounded ==
    \A c \in Callers :
        LET k == calls[c] IN
        (k.op = "getReport" /\ k.pc = "done") =>
            Report(k).total.total = Round2(SumInTarget(k.items, k.cur, k.resp.table))

\* C3 amended: the total of a returned report is the sum of the unrounded row
\* amounts of the records with a finite sum, not rounded; every row amount is
\* the unrounded converted amount; 100 USD and 340 ILS give 200 in USD.
C3_TotalUnrounded ==
    \A c \in Callers :
        LET k == calls[c] IN
        (k.op = "getReport" /\ k.pc = "done") =>
            /\ Report(k).total.total = SumInTarget(k.items, k.cur, k.resp.table)
            /\ \A i \in 1..Len(k.items) :
                  IsFinite(k.items[i].sum) =>
                      Report(k).costs[i].sumInTarget
                          = InTarget(k.items[i], k.cur, k.resp.table)
            /\ (/\ Len(k.items) = 2
                /\ k.items[1].sum = Int2Num(100) /\ k.items[1].currency = "USD"
                /\ k.items[2].sum = Int2Num(340) /\ k.items[2].currency = "ILS"
                /\ k.cur = "USD" /\ k.resp.table = SampleRates)
               => Report(k).total.total = Int2Num(200)

\* a returned report whose total has more than 2 decimal places
C3_Witness ==
    LET k == calls["report"] IN
    /\ k.op = "getReport" /\ k.pc = "done" /\ k.fetched
    /\ Report(k).total.total # Round2(Report(k).total.total)

\* C4: convert of a finite amount between currencies that are equal after
\* alias normalization returns the amount itself, whatever the rate table.
C4_SameCurrency ==
    (/\ pure.pc = "done"
     /\ pure.sum.k = "num"
     /\ normalizeCurrency(pure.from) = normalizeCurrency(pure.to))
    => pure.out = Ok(pure.sum)

\* 10 EUR to EURO with no rate table at all
C4_Witness ==
    /\ pure.pc = "done"
    /\ pure.sum = Int2Num(10) /\ pure.from = "EUR" /\ pure.to = "EURO"
    /\ pure.rates = NullTable
    /\ pure.out = Ok(Int2Num(10))

\* C5: for a finite amount and different currencies that both have a number
\* in the table, convert returns amount / rates[from] * rates[to]: the result
\* times the source's rate is the amount times the target's rate; 10 USD are
\* 34 ILS and 10 ILS are 10/3.4 USD with the sample rates.
C5_ThroughReference ==
    LET from == normalizeCurrency(pure.from)
        to == normalizeCurrency(pure.to)
        n == ToNumber(pure.sum)
        fromRate == Lookup(pure.rates, from)
        toRate == Lookup(pure.rates, to)
    IN  (/\ pure.pc = "done" /\ IsFinite(n) /\ from # to
         /\ pure.rates.k = "obj" /\ IsNumber(fromRate) /\ IsNumber(toRate))
        => /\ pure.out.err = "none"
           /\ pure.out.v = Mul(Div(n, fromRate), toRate)
           /\ (IsFinite(fromRate) /\ fromRate.n > 0 /\ IsFinite(toRate))
                => Mul(pure.out.v, fromRate) = Mul(n, toRate)
           /\ (n = Int2Num(10) /\ pure.rates = SampleRates /\ from = "USD" /\ to = "ILS")
                => pure.out.v = Int2Num(34)
           /\ (n = Int2Num(10) /\ pure.rates = SampleRates /\ from = "ILS" /\ to = "USD")
                => pure.out.v = Num(100, 34)

\* 10 ILS converted to USD with the sample rates
C5_Witness ==
    /\ pure.pc = "done"
    /\ pure.sum = Int2Num(10) /\ pure.from = "ILS" /\ pure.to = "USD"
    /\ pure.rates = SampleRates
    /\ pure.out = Ok(Num(50, 17))

\* whether the table has no number for the currency
LacksRate(rates, c) == ~IsNumber(Lookup(rates, normalizeCurrency(c)))

\* C6 as stated: with different currencies and a table that lacks a numeric
\* rate for one of them, convert fails and never returns a number.
C6_AlwaysFails ==
    (/\ pure.pc = "done"
     /\ normalizeCurrency(pure.from) # normalizeCurrency(pure.to)
     /\ (LacksRate(pure.rates, pure.from) \/ LacksRate(pure.rates, pure.to)))
    => pure.out.err # "none"

\* C6 amended: with different currencies, a finite amount and a table object
\* that lacks a numeric rate for one of them, convert fails with
\* UnsupportedCurrency (with no table at all it fails too, with a TypeError);
\* with an amount that is not finite it returns 0 and looks no rate up.
C6_FailsWhenFinite ==
    (/\ pure.pc = "done"
     /\ normalizeCurrency(pure.from) # normalizeCurrency(pure.to)
     /\ (LacksRate(pure.rates, pure.from) \/ LacksRate(pure.rates, pure.to)))
    => /\ (IsFinite(ToNumber(pure.sum)) /\ pure.rates.k = "obj")
            => pure.out = Throw("UnsupportedCurrency")
       /\ (IsFinite(ToNumber(pure.sum)) /\ pure.rates.k = "null")
            => pure.out = Throw("TypeError")
       /\ ~IsFinite(ToNumber(pure.sum)) => pure.out = Ok(Zero)

\* 10 XXX to USD with the sample rates has failed
C6_Witness ==
    /\ pure.pc = "done"
    /\ pure.sum = Int2Num(10) /\ pure.from = "XXX" /\ pure.to = "USD"
    /\ pure.rates = SampleRates
    /\ pure.out = Throw("UnsupportedCurrency")

\* the report of a period without records, with the given currency code
EmptyReport(y, m, currency) ==
    [year |-> y, month |-> m, costs |-> <<>>,
     total |-> [currency |-> currency, total |-> Zero]]

\* C7 as stated: getReport for a period without records returns the empty
\* report whose total carries the currency code that was requested.
C7_EmptyRequestedCode ==
    \A c \in Callers :
        LET k == calls[c] IN
        (k.op = "getReport" /\ k.pc = "done" /\ Len(k.items) = 0) =>
            returned(k, Now.off) = EmptyReport(k.y, k.m, k.cur)

\* C7 amended: for a period without records neither getReport nor
\* getCategoryTotals fails or fetches rates; getReport returns the empty
\* report with total 0 in the requested currency after alias normalization
\* (EUR is reported as EURO), getCategoryTotals the empty sequence.
C7_EmptyPeriod ==
    \A c \in Callers :
        LET k == calls[c] IN
        (k.op \in {"getReport", "getCategoryTotals"} /\ k.pc # "idle"
            /\ Len(k.items) = 0) =>
            /\ k.pc \in {"query", "done"}
            /\ ~k.fetched
            /\ (k.pc = "done" /\ k.op = "getReport") =>
                  returned(k, Now.off) = EmptyReport(k.y, k.m, normalizeCurrency(k.cur))
            /\ (k.pc = "done" /\ k.op = "getCategoryTotals") =>
                  returned(k, Now.off) = <<>>

\* getReport has returned for a period without records while the ledger
\* holds a record of another period in another currency
C7_Witness ==
    LET k == calls["report"] IN
    /\ k.op = "getReport" /\ k.pc = "done" /\ Len(k.items) = 0
    /\ k.cur = "EUR"
    /\ k.asOf >= 1 /\ ledger[1].currency = "ILS"

\* C8: a step of getYearMonthlyTotals that ends a month appends, as entry
\* number month, the total.total of the getReport of that month, and goes on
\* to the next month or, after month 12, returns; the array returned has 12
\* entries.
C8_YearTotals ==
    /\ [](\A c \in Callers :
            LET k == calls[c] IN
            k.op = "getYearMonthlyTotals" =>
                /\ k.pc = "done" => Len(k.results) = 12 /\ k.m = 12
                /\ k.pc \in {"query", "fetch", "failed"} => Len(k.results) = k.m - 1)
    /\ [][\A c \in Callers :
            LET k == calls[c]
                kk == calls'[c]
                rates == IF k.pc = "fetch" THEN kk.resp.table ELSE NullTable
            IN  (k.op = "getYearMonthlyTotals" /\ kk.op = "getYearMonthlyTotals"
                    /\ kk.results # k.results) =>
                    /\ kk.results = Append(k.results,
                          getReport(k.y, k.m, k.cur, k.items, rates, Now.off).v.total.total)
                    /\ Len(kk.results) = k.m
                    /\ kk.y = k.y /\ kk.cur = k.cur
                    /\ IF k.m = 12 THEN kk.pc = "done"
                       ELSE /\ kk.pc = "query" /\ kk.m = k.m + 1
                            /\ kk.items = getAll(ledger, k.y, k.m + 1)]_vars

\* a yearly call has returned 12 totals: the months with records have theirs,
\* the months without have 0
C8_Witness ==
    LET k == calls["report"] IN
    /\ k.op = "getYearMonthlyTotals" /\ k.pc = "done"
    /\ Len(k.results) = 12
    /\ k.results[1] # Zero /\ k.results[2] # Zero /\ k.results[1] # k.results[2]
    /\ \A i \in 3..12 : k.results[i] = Zero

\* C9 as stated: a call that has read its records has fetched the rates if
\* and only if some record's currency code differs from the target's.
C9_FetchIffCodeDiffers ==
    \A c \in Callers :
        LET k == calls[c] IN
        (k.op \in {"getReport", "getCategoryTotals"}
            /\ k.pc \in {"fetch", "done", "failed"}) =>
            (k.fetched <=> \E i \in 1..Len(k.items) : k.items[i].currency # k.cur)

\* C9 amended: a call that has read its records has fetched the rates if and
\* only if some record's currency differs from the target currency after
\* alias normalization of both (EUR and EURO are the same currency).
C9_FetchIffNeeded ==
    \A c \in Callers :
        LET k == calls[c] IN
        (k.op \in {"getReport", "getCategoryTotals"}
            /\ k.pc \in {"fetch", "done", "failed"}) =>
            (k.fetched <=>
                \E i \in 1..Len(k.items) :
                    ~(\/ k.items[i].currency = k.cur
                      \/ {k.items[i].currency, k.cur} = {"EUR", "EURO"}))

\* a call has returned without a fetch: its only record is in EURO and the
\* target is EUR
C9_Witness ==
    LET k == calls["report"] IN
    /\ k.pc = "done" /\ ~k.fetched
    /\ k.op \in {"getReport", "getCategoryTotals"}
    /\ Len(k.items) = 1 /\ k.items[1].currency = "EURO" /\ k.cur = "EUR"

\* whether the endpoint's answer makes fetchRates fail
Failing(resp) == ~resp.ok \/ ~resp.parses

\* C10: a step in which the rate fetch of a call fails rejects the call with
\* the fetch's error, whichever of the three operations it is, and adds no
\* total to a yearly call's array; no yearly call returns fewer than 12
\* totals.
C10_FetchFailureFailsCall ==
    /\ [][\A c \in Callers :
            LET k == calls[c]
                kk == calls'[c]
            IN  (k.pc = "fetch" /\ kk # k /\ kk.pc # "idle" /\ Failing(kk.resp)) =>
                    /\ kk.pc = "failed"
                    /\ kk.err = IF ~kk.resp.ok THEN "RatesFetchFailed"
                                ELSE "RatesParseFailed"
                    /\ kk.results = k.results]_vars
    /\ [](\A c \in Callers :
            (calls[c].op = "getYearMonthlyTotals" /\ calls[c].pc = "done") =>
                Len(calls[c].results) = 12)

\* a yearly call has failed in its second month on a failed fetch, after the
\* first month's total was computed
C10_Witness ==
    LET k == calls["report"] IN
    /\ k.op = "getYearMonthlyTotals" /\ k.pc = "failed"
    /\ k.m = 2 /\ Len(k.results) = 1 /\ k.results[1] # Zero
    /\ k.err = "RatesFetchFailed" /\ ~k.resp.ok

\* C11 as stated: a getReport or getCategoryTotals call that fetched a rate
\* table lacking the currency of one of its records, or the target currency,
\* fails with UnsupportedCurrency, whatever the sums of its records.
C11_UnsupportedFailsCall ==
    \A c \in Callers :
        LET k == calls[c] IN
        (/\ k.op \in {"getReport", "getCategoryTotals"}
         /\ k.pc \in {"done", "failed"}
         /\ k.fetched /\ k.resp.ok /\ k.resp.parses
         /\ \/ LacksRate(k.resp.table, k.cur)
            \/ \E i \in 1..Len(k.items) : LacksRate(k.resp.table, k.items[i].currency))
        => k.pc = "failed" /\ k.err = "UnsupportedCurrency"

\* the label a stored record is counted under: its category, "Other" when
\* the category is the empty text
LabelOf(r) == IF r.category = "" THEN "Other" ELSE r.category

\* the entries of a sequence of category totals that carry the label
EntriesOf(totals, label) == {j \in 1..Len(totals) : totals[j].category = label}

\* C12 as stated: getCategoryTotals returns exactly one entry per distinct
\* category among the records of the period, and the entry's total is the sum
\* of the converted amounts of the category's records rounded to 2 decimal
\* places.
C12_RoundedPerCategory ==
    \A c \in Callers :
        LET k == calls[c]
            totals == returned(k, Now.off)
            labels == {LabelOf(k.items[i]) : i \in 1..Len(k.items)}
        IN  (k.op = "getCategoryTotals" /\ k.pc = "done") =>
                /\ Len(totals) = Cardinality(labels)
                /\ \A l \in labels :
                      /\ Cardinality(EntriesOf(totals, l)) = 1
                      /\ \A j \in EntriesOf(totals, l) :
                            totals[j].total =
                                Round2(SumInTarget(SelectSeq(k.items, LAMBDA r : LabelOf(r) = l),
                                                   k.cur, k.resp.table))

\* C12 amended: getCategoryTotals returns exactly one entry per distinct
\* label among the records of the period that have a finite sum (a record
\* whose sum is not finite is left out, and so is a label that only such
\* records carry); the label is the stored category, "Other" for the empty
\* text, and the text "undefined" for a record that was added without a
\* category; the entry's total is the sum of the converted amounts of the
\* label's records, not rounded.
C12_PerCategory ==
    \A c \in Callers :
        LET k == calls[c]
            totals == returned(k, Now.off)
            finite == SelectSeq(k.items, LAMBDA r : IsFinite(r.sum))
            labels == {LabelOf(finite[i]) : i \in 1..Len(finite)}
        IN  (k.op = "getCategoryTotals" /\ k.pc = "done") =>
                /\ Len(totals) = Cardinality(labels)
                /\ \A l \in labels :
                      /\ Cardinality(EntriesOf(totals, l)) = 1
                      /\ \A j \in EntriesOf(totals, l) :
                            totals[j].total =
                                SumInTarget(SelectSeq(k.items, LAMBDA r : LabelOf(r) = l),
                                            k.cur, k.resp.table)
                /\ \A i \in 1..Len(finite) :
                      \E cost \in CostInputs :
                          /\ finite[i].category = ToStr(cost.category)
                          /\ cost.category = Undef => LabelOf(finite[i]) = "undefined"
                          /\ cost.category = Str("") => LabelOf(finite[i]) = "Other"

\* category totals were returned after a conversion: one label sums two
\* records, and a total has more than 2 decimal places
C12_Witness ==
    LET k == calls["report"]
        totals == returned(k, Now.off)
    IN  /\ k.op = "getCategoryTotals" /\ k.pc = "done" /\ k.fetched
        /\ Len(k.items) = 2
        /\ \E j \in 1..Len(totals) :
              /\ totals[j].category = "Other"
              /\ totals[j].total # Round2(totals[j].total)

\* whether two settled getCategoryTotals calls asked the same question of the
\* same ledger and were served the same rate table
SameQuestion(k1, k2) ==
    /\ k1.op = "getCategoryTotals" /\ k2.op = "getCategoryTotals"
    /\ k1.pc \in {"done", "failed"} /\ k2.pc \in {"done", "failed"}
    /\ k1.y = k2.y /\ k1.m = k2.m /\ k1.cur = k2.cur
    /\ k1.asOf = k2.asOf
    /\ (k1.fetched /\ k2.fetched) => k1.resp = k2.resp

\* C13: two getCategoryTotals calls for the same (year, month, currency) with
\* no addCost between their reads and the same rate table served settle the
\* same way, with the same categories and the same totals, and no step of a
\* call changes the ledger.
C13_Idempotent ==
    /\ [](\A c1 \in Callers, c2 \in Callers :
            SameQuestion(calls[c1], calls[c2]) =>
                /\ calls[c1].pc = calls[c2].pc
                /\ calls[c1].err = calls[c2].err
                /\ calls[c1].pc = "done" =>
                      returned(calls[c1], Now.off) = returned(calls[c2], Now.off))
    /\ [][calls' # calls => ledger' = ledger]_vars

\* two calls have returned the same two totals after a conversion each, and
\* the ledger holds the two records they read
C13_Witness ==
    /\ SameQuestion(calls["report"], calls["charts"])
    /\ calls["report"].pc = "done" /\ calls["report"].fetched
    /\ calls["charts"].pc = "done" /\ calls["charts"].fetched
    /\ Len(returned(calls["report"], Now.off)) = 2
    /\ returned(calls["charts"], Now.off) = returned(calls["report"], Now.off)
    /\ Len(ledger) = 2 /\ calls["report"].asOf = 2

\* the names of the four input fields and of the fields addCost adds
InputFields == {"sum", "currency", "category", "description"}
StampedFields == {"id", "createdAt", "year", "month", "day"}

\* C14 as stated: addCost resolves to the full stored record, the four input
\* fields together with id, createdAt, year, month and day.
C14_ReturnsStoredRecord ==
    added # Undef =>
        /\ Len(ledger) > 0
        /\ DOMAIN added = InputFields \cup StampedFields
        /\ added = ledger[Len(ledger)]

\* C14 amended: addCost stores a record with the four input fields, coerced
\* by Number and String, the generated id and the stamped createdAt, year,
\* month and day, and resolves to an object with the four input fields of the
\* stored record only.
C14_ReturnsFourFields ==
    /\ \A i \in 1..Len(ledger) :
          /\ DOMAIN ledger[i] = InputFields \cup StampedFields
          /\ ledger[i].id = i
    /\ added # Undef =>
          /\ Len(ledger) > 0
          /\ DOMAIN added = InputFields
          /\ \A f \in InputFields : added[f] = ledger[Len(ledger)][f]
          /\ \E cost \in CostInputs :
                /\ added.sum = ToNumber(cost.sum)
                /\ added.currency = ToStr(cost.currency)
                /\ added.category = ToStr(cost.category)
                /\ added.description = ToStr(cost.description)

\* addCost({sum: "10", currency: "EURO", category: "", description: "taxi"})
\* has resolved, as the second call
C14_Witness ==
    /\ Len(ledger) = 2
    /\ ledger[2].id = 2 /\ ledger[2].sum = Int2Num(10) /\ ledger[2].currency = "EURO"
    /\ added = [sum |-> Int2Num(10), currency |-> "EURO", category |-> "",
                description |-> "taxi"]

\* C15 as stated: addCost with a sum that does not coerce to a finite number
\* writes nothing, so that no stored record has a sum that is not finite.
C15_NoNonFiniteSum ==
    \A i \in 1..Len(ledger) : IsFinite(ledger[i].sum)

\* whether the entry form holds a sum that is not a number or not positive,
\* or a blank category
BadEntry(f) ==
    LET n == ToNumber(Str(f.sum)) IN
    \/ f.sum = "" \/ n.k = "nan" \/ NotPositive(n)
    \/ trim(f.category) = ""

\* C16 as stated: a step taken while the entry form holds a sum that is not
\* numeric or not positive, or a blank category, writes nothing, and every
\* stored record has a finite sum greater than 0 and a category that is not
\* blank.
C16_FormRejectsInvalid ==
    /\ [][BadEntry(form) => ledger' = ledger]_vars
    /\ [](\A i \in 1..Len(ledger) :
            /\ IsFinite(ledger[i].sum) /\ ledger[i].sum.n > 0
            /\ trim(ledger[i].category) # "")

\* C17: once the database exists it has exactly one store, costs, with
\* exactly one index, year_month, however many opens have run, one after the
\* other or at the same time, at the same or a higher version; the store and
\* the index are created in the one step that finds none, and no later open
\* creates, drops or empties them.
C17_SchemaOnce ==
    /\ [](db.version > 0 =>
            /\ db.stores = {defaultStore}
            /\ db.indexes = {<<defaultStore, "year_month">>})
    /\ [][/\ (db'.stores # db.stores \/ db'.indexes # db.indexes) =>
                (db.version = 0 /\ db.stores = {} /\ db.indexes = {})
          /\ db.version > 0 => Len(ledger') >= Len(ledger)]_vars

\* two connections are open at once on the database at version 2, which
\* holds a record
C17_Witness ==
    /\ db.version = BumpedVersion
    /\ conns >= 2
    /\ Len(ledger) >= 1
    /\ db.stores = {defaultStore}
    /\ db.indexes = {<<defaultStore, "year_month">>}

\* C18: while no openCostsDB call has resolved for the App, no call is in
\* flight, no step writes to the ledger or starts a call, and a request of the
\* entry form, the report view or the chart view only sets that page's
\* message to "not ready"; the message "not ready" is never set once the
\* open has resolved, and then the request that was refused goes through: the
\* view's call is started, the form's entry is validated and, when valid,
\* written.
C18_NotBeforeOpen ==
    /\ [](~Ready => \A c \in Callers : calls[c].pc = "idle")
    /\ [](\A c \in Callers : views[c] = "not-ready" => calls[c].pc = "idle")
    /\ [][~Ready =>
            /\ ledger' = ledger
            /\ calls' = calls
            /\ form'.status # form.status => form'.status \in {"not-ready", "none"}
            /\ \A c \in Callers :
                  views'[c] # views[c] => views'[c] \in {"not-ready", "none"}]_vars
    /\ [][Ready =>
            /\ form'.status = "not-ready" => form.status = "not-ready"
            /\ \A c \in Callers : views'[c] = "not-ready" => views[c] = "not-ready"
            /\ \A c \in Callers :
                  (views[c] = "not-ready" /\ views'[c] # views[c] /\ conns' >= conns) =>
                      calls'[c].pc = "query" /\ views'[c] = "none"
            /\ (form.status = "not-ready" /\ form'.status # form.status
                    /\ conns' >= conns) =>
                  IF BadEntry(form)
                  THEN /\ form'.status \in {"invalid-sum", "invalid-category"}
                       /\ ledger' = ledger
                  ELSE /\ form'.status = "success"
                       /\ Len(ledger') = Len(ledger) + 1]_vars

\* the chart view was refused before the open resolved and still shows "not
\* ready"; the open has resolved since, an entry of the form was written and
\* the report view's call is in flight
C18_Witness ==
    /\ Ready
    /\ views["charts"] = "not-ready"
    /\ form.status = "success" /\ Len(ledger) = 1
    /\ calls["report"].pc = "query" /\ views["report"] = "none"

\* the offset of local time from UTC that was in force at the instant
WriterOffset(utc) ==
    LET i == CHOOSE j \in 1..Len(Instants) : Instants[j].utc = utc
    IN  Instants[i].off

\* C19 as stated: the year, month and day of every stored record are the
\* year, month and day of the date its createdAt spells, and the month is in
\* 1..12.
C19_FieldsOfCreatedAt ==
    \A i \in 1..Len(ledger) :
        /\ ledger[i].year = ledger[i].createdAt.y
        /\ ledger[i].month = ledger[i].createdAt.m
        /\ ledger[i].day = ledger[i].createdAt.d
        /\ ledger[i].month \in 1..12

\* C19 amended: the year, month and day of every stored record are the
\* calendar fields, in the local time of the place where addCost ran, of the
\* instant its createdAt denotes, with the month in 1..12 and the day within
\* the month; createdAt itself is written in UTC, so within the offset's
\* hours of midnight the date it spells is the day before or after: they are
\* equal when the local hour falls on the same UTC day.
C19_LocalFieldsOfCreatedAt ==
    \A i \in 1..Len(ledger) :
        LET r == ledger[i]
            off == WriterOffset(r.createdAt)
            h == r.createdAt.h + off
        IN  /\ r.month \in 1..12
            /\ r.day \in 1..DaysInMonth(r.year, r.month)
            /\ (h >= 0 /\ h < 24) =>
                  r.year = r.createdAt.y /\ r.month = r.createdAt.m /\ r.day = r.createdAt.d
            /\ h >= 24 =>
                  \/ r.day = r.createdAt.d + 1 /\ r.month = r.createdAt.m
                        /\ r.year = r.createdAt.y
                  \/ r.day = 1 /\ r.createdAt.d = DaysInMonth(r.createdAt.y, r.createdAt.m)
                        /\ \/ r.month = r.createdAt.m + 1 /\ r.year = r.createdAt.y
                           \/ r.month = 1 /\ r.createdAt.m = 12
                                /\ r.year = r.createdAt.y + 1
            /\ h < 0 =>
                  \/ r.day = r.createdAt.d - 1 /\ r.month = r.createdAt.m
                        /\ r.year = r.createdAt.y
                  \/ r.createdAt.d = 1 /\ r.day = DaysInMonth(r.year, r.month)
                        /\ \/ r.month = r.createdAt.m - 1 /\ r.year = r.createdAt.y
                           \/ r.month = 12 /\ r.createdAt.m = 1
                                /\ r.year = r.createdAt.y - 1
            /\ r.createdAt = [y |-> 2025, m |-> 12, d |-> 31, h |-> 23] =>
                  r.year = 2026 /\ r.month = 1 /\ r.day = 1
            /\ r.createdAt = [y |-> 2026, m |-> 2, d |-> 1, h |-> 2] =>
                  r.year = 2026 /\ r.month = 1 /\ r.day = 31

\* a record stored on 1 January 2026 local time, whose createdAt spells 31
\* December 2025, and one stored on 31 January, whose createdAt spells 1
\* February
C19_Witness ==
    /\ Len(ledger) = 2
    /\ ledger[1].createdAt.y = 2025 /\ ledger[1].year = 2026 /\ ledger[1].month = 1
    /\ ledger[2].createdAt.m = 2 /\ ledger[2].month = 1 /\ ledger[2].day = 31

\* the endpoint the stored item stands for: the item without the white space
\* around it when there is an item and it is not blank, /rates.json otherwise
Endpoint(item) ==
    IF item.set /\ trim(item.value) # "" THEN trim(item.value) ELSE "/rates.json"

\* C20: a step in which a call issues a rate fetch asks the endpoint that the
\* stored ratesUrl item stands for at that step, whatever Save, Use-default
\* and Reset actions came before and whatever an earlier fetch of the same
\* call asked; and what these actions store is no item or a trimmed text that
\* is not blank.
C20_EndpointFromSetting ==
    /\ [][\A c \in Callers :
            (calls'[c].pc = "fetch" /\ calls[c].pc # "fetch") =>
                /\ storage' = storage
                /\ calls'[c].url = Endpoint(storage)]_vars
    /\ [][storage' # storage =>
            \/ ~storage'.set
            \/ /\ storage'.value = trim(storage'.value)
               /\ storage'.value # ""
               /\ storage'.value \in {trim(settings.url), "/rates.json"}]_vars

\* two fetches are in flight: the chart view's asks /my-rates.json, which
\* was the setting when it was issued, the report view's asks /rates.json
\* after a Reset
C20_Witness ==
    /\ calls["charts"].pc = "fetch" /\ calls["charts"].url = "/my-rates.json"
    /\ calls["report"].pc = "fetch" /\ calls["report"].url = "/rates.json"
    /\ ~storage.set /\ settings.status = "reset"

(***************************************************************************)
(* The bodies the rate endpoint can answer with                            *)
(***************************************************************************)
NegativeRates == Table([c \in {"USD", "ILS"} |-> IF c = "USD" THEN Int2Num(1) ELSE Num(-34, 10)])

\* res.json() resolves with whatever JSON value the body spells: a table of
\* positive rates, the value null, an object without members, an object
\* whose rates are texts, zero or negative; it rejects when the body is not
\* JSON, and fetchRates throws before reading the body when the status is
\* not a success
RateBodies ==
    { Response(TRUE, TRUE, SampleRates), Response(TRUE, TRUE, NullTable),
      Response(TRUE, TRUE, EmptyRates), Response(TRUE, TRUE, StringRates),
      Response(TRUE, TRUE, ZeroRates), Response(TRUE, TRUE, NegativeRates),
      Response(FALSE, TRUE, NullTable), Response(TRUE, FALSE, NullTable) }

RatesCosts ==
    { Cost(Int2Num(100), Str("USD"), Str("Food"), Str("lunch")),
      Cost(Int2Num(340), Str("ILS"), Str("Food"), Str("dinner")) }

RatesCurrencies == {"USD", "ILS"}

NextRates ==
    \/ \E cost \in RatesCosts, t \in 1..Len(Instants) : AddCost(cost, t)
    \/ \E cur \in RatesCurrencies :
          \/ Start("report", "getReport", 2026, 1, cur)
          \/ Start("report", "getCategoryTotals", 2026, 1, cur)
    \/ QueryDone("report")
    \/ \E resp \in RateBodies : FetchDone("report", resp)
    \/ Return("report")

SpecRates == Init /\ [][NextRates]_vars

\* the body is a flat mapping of currency codes to positive numbers
IsRateMapping(table) ==
    /\ table.k = "obj"
    /\ DOMAIN table.m # {}
    /\ \A c \in DOMAIN table.m : table.m[c].k = "num" /\ table.m[c].n > 0

\* C21: a call whose rate fetch has come back has failed with
\* RatesFetchFailed when the status was not a success, has failed with
\* RatesParseFailed when the body was not a flat mapping of currency codes to
\* positive numbers, and has gone on with a rate table only when the body was
\* such a mapping.
C21_FetchRatesValidates ==
    LET k == calls["report"] IN
    (k.fetched /\ k.pc \in {"done", "failed"}) =>
        /\ ~k.resp.ok => (k.pc = "failed" /\ k.err = "RatesFetchFailed")
        /\ (k.resp.ok /\ ~(k.resp.parses /\ IsRateMapping(k.resp.table))) =>
              (k.pc = "failed" /\ k.err = "RatesParseFailed")
        /\ k.err \notin {"RatesFetchFailed", "RatesParseFailed"} =>
              IsRateMapping(k.resp.table)

C23_FetchBeforeConvert ==
    /\ [][\A c \in Callers :
            (/\ calls[c].pc = "query"
             /\ needsRates(calls[c].items, normalizeCurrency(calls[c].cur))
             /\ calls'[c] # calls[c]) => calls'[c].pc = "fetch"]_vars
    /\ [](\A c \in Callers :
            LET k == calls[c] IN
            /\ (k.pc = "done" /\ k.fetched) =>
                  (k.resp.ok /\ k.resp.parses /\ k.resp.table.k = "obj")
            /\ k.err # "TypeError")

\* C24: a report that getReport returns is made of the records that its
\* store query found: the records stamped with its (year, month) that were in
\* the ledger at the query, one row each in the order stored and with the
\* record's own fields; its total is the sum of the finite converted amounts
\* of these same rows; and a record added while the call waits for the rates
\* changes nothing of what the call has read.
C24_OneSnapshot ==
    /\ [](\A c \in Callers :
            LET k == calls[c]
                rows == Report(k).costs
            IN  (k.op = "getReport" /\ k.pc = "done") =>
                  /\ k.asOf <= Len(ledger)
                  /\ k.items = getAll(SubSeq(ledger, 1, k.asOf), k.y, k.m)
                  /\ Len(rows) = Len(k.items)
                  /\ \A j \in 1..Len(rows) :
                        /\ rows[j].sum = k.items[j].sum
                        /\ rows[j].currency = k.items[j].currency
                        /\ rows[j].category = k.items[j].category
                        /\ rows[j].description = k.items[j].description
                  /\ Report(k).total.total =
                        SetSum([j \in 1..Len(rows) |-> rows[j].sumInTarget],
                               {j \in 1..Len(rows) : IsFinite(rows[j].sumInTarget)}))
    /\ [][\A c \in Callers :
            (calls[c].pc = "fetch" /\ ledger' # ledger) =>
                /\ calls'[c] = calls[c]
                /\ getAll(SubSeq(ledger', 1, calls[c].asOf), calls[c].y, calls[c].m)
                      = calls[c].items]_vars

\* a report has been returned after a rate fetch with one row, whose
\* converted amount is its total, while the ledger holds a second record of
\* the same period that was added after the report's query
C24_Witness ==
    LET k == calls["report"] IN
    /\ k.op = "getReport" /\ k.pc = "done" /\ k.fetched
    /\ k.asOf = 1 /\ Len(ledger) = 2
    /\ ledger[1].year = k.y /\ ledger[1].month = k.m
    /\ ledger[2].year = k.y /\ ledger[2].month = k.m
    /\ IsFinite(ledger[2].sum) /\ ledger[2].sum # Zero
    /\ Len(Report(k).costs) = 1
    /\ Report(k).total.total = Report(k).costs[1].sumInTarget
    /\ Report(k).total.total # Zero

(***************************************************************************)
(* A monthly report and a yearly chart asked for at the same time          *)
(***************************************************************************)
FetchesCosts ==
    { Cost(Int2Num(100), Str("USD"), Str("Food"), Str("lunch")),
      Cost(Str("10"), Str("EURO"), Str(""), Str("taxi")) }

FetchesCurrencies == {"USD"}

FetchesResponses ==
    { Response(TRUE, TRUE, SampleRates), Response(TRUE, TRUE, PartialRates) }

NextFetches ==
    \/ \E cost \in FetchesCosts, t \in 2..Len(Instants) : AddCost(cost, t)
    \/ \E c \in Callers, cur \in FetchesCurrencies : Start(c, "getReport", 2026, 1, cur)
    \/ \E cur \in FetchesCurrencies : Start("charts", "getYearMonthlyTotals", 2026, 1, cur)
    \/ \E c \in Callers : QueryDone(c)
    \/ \E c \in Callers, resp \in FetchesResponses : FetchDone(c, resp)
    \/ \E c \in Callers : Return(c)

SpecFetches == Init /\ [][NextFetches]_vars

\* C25: no rate table is kept from one call to the next or shared between
\* calls. Every store query of a call, a yearly call's query of each month
\* included, is followed by a fetch of its own exactly when a record it read
\* is not in the target currency; an answer ends the fetch of the one call
\* that asked and of no other call, also when another call is waiting for
\* rates at the same time; and after the answer a yearly call goes on to the
\* next month's query, so that it fetches once for each month that needs
\* conversion and not at all for the other months.
C25_OwnFetchEachTime ==
    /\ [][\A c \in Callers :
            (calls[c].pc = "query" /\ calls'[c] # calls[c]) =>
                /\ calls'[c].pc = "fetch" <=>
                      needsRates(calls[c].items, normalizeCurrency(calls[c].cur))
                /\ (calls'[c].pc = "query") =>
                      (calls[c].op = "getYearMonthlyTotals" /\ calls'[c].m = calls[c].m + 1)]_vars
    /\ [][\A c \in Callers :
            (calls[c].pc = "fetch" /\ calls'[c] # calls[c]) =>
                /\ calls'[c].pc # "fetch"
                /\ (calls'[c].pc = "query") =>
                      (calls[c].op = "getYearMonthlyTotals" /\ calls'[c].m = calls[c].m + 1)
                /\ \A d \in Callers \ {c} : calls'[d] = calls[d]]_vars
    /\ [](\A c \in Callers :
            LET k == calls[c] IN
            (k.op = "getYearMonthlyTotals" /\ k.pc = "done") =>
                (Len(k.results) = MonthsPerYear /\ k.m = MonthsPerYear))

\* a monthly report and a yearly chart have both been returned; each of them
\* converted January's records with the table its own fetch was answered
\* with, the two tables being different, and the yearly call fetched nothing
\* for December
C25_Witness ==
    LET r == calls["report"]
        y == calls["charts"]
    IN  /\ r.op = "getReport" /\ r.pc = "done" /\ r.fetched
        /\ y.op = "getYearMonthlyTotals" /\ y.pc = "done" /\ ~y.fetched
        /\ r.cur = y.cur
        /\ r.resp.table = SampleRates /\ y.resp.table = PartialRates
        /\ y.results[1] # Zero /\ y.results[1] # Report(r).total.total
        /\ \A m \in 2..MonthsPerYear : y.results[m] = Zero

\* the life cycle with the engine and the network doing their part: a
\* storage request that can run is run, its promise is settled and taken, a
\* store query and a rate fetch come back, a settled call is taken; nothing
\* makes the user reload the pages
SpecLifecycleFair ==
    /\ SpecLifecycle
    /\ WF_vars(OpenRun)
    /\ WF_vars(OpenReturn)
    /\ WF_vars(QueryDone("report"))
    /\ WF_vars(\E resp \in LifecycleResponses : FetchDone("report", resp))
    /\ WF_vars(Return("report"))

\* C26: every call settles, and settles once: an openCostsDB call that is
\* waiting, an open against a database that another connection holds at a
\* lower version included, is resolved or rejected in the end, a report call
\* that waits for its store query or its rate fetch is resolved or rejected in
\* the end, and a settled call is never settled again.
C26_EverySettles ==
    /\ (opens # <<>> /\ Head(opens).pc \in {"pending", "blocked"})
          ~> (opens = <<>> \/ Head(opens).pc \in {"done", "failed"})
    /\ (calls["report"].pc \in {"query", "fetch"})
          ~> (calls["report"].pc \in {"done", "failed", "idle"})
    /\ [][/\ calls["report"].pc \in {"done", "failed"} =>
                calls'["report"].pc \in {calls["report"].pc, "idle"}
          /\ (opens # <<>> /\ Head(opens).pc \in {"done", "failed"}) =>
                (opens' = opens \/ opens' = Tail(opens) \/ opens' = <<>>
                   \/ (Len(opens') = Len(opens) + 1 /\ Head(opens') = Head(opens)))]_vars

(***************************************************************************)
(* Records whose sum is not a finite number                                *)
(***************************************************************************)
NonFiniteCosts ==
    { Cost(Str("abc"), Str("XXX"), Str("Food"), Str("typo")),
      Cost(Str("Infinity"), Str("USD"), Str("Fun"), Str("")),
      Cost(Int2Num(340), Str("ILS"), Str("Food"), Str("dinner")) }

NonFiniteResponses ==
    { Response(TRUE, TRUE, SampleRates), Response(FALSE, TRUE, NullTable) }

NonFiniteAmounts == { NaN, Inf(1), Str("abc"), Undef, Int2Num(10) }

InitNonFinite ==
    /\ db = upgrade([version |-> 0, stores |-> {}, indexes |-> {}], <<>>, AppVersion).db
    /\ ledger = <<>>
    /\ conns = 1
    /\ opens = <<>>
    /\ clock = 1
    /\ calls = [c \in Callers |-> IdleCall]
    /\ pure \in [pc : {"args"}, sum : NonFiniteAmounts, from : {"USD", "XXX"},
                 to : {"USD", "ILS"}, rates : {SampleRates, EmptyRates, NullTable},
                 out : {Throw("none")}]
    /\ added = Undef
    /\ form = EmptyForm
    /\ views = NoViews
    /\ storage = NoItem
    /\ settings = mountSettings(NoItem).settings

NextNonFinite ==
    \/ \E cost \in NonFiniteCosts : AddCost(cost, 2)
    \/ \E cur \in {"USD", "ILS"} :
          \/ Start("report", "getReport", 2026, 1, cur)
          \/ Start("report", "getCategoryTotals", 2026, 1, cur)
    \/ QueryDone("report")
    \/ \E resp \in NonFiniteResponses : FetchDone("report", resp)
    \/ Return("report")
    \/ ApplyConvert

SpecNonFinite == InitNonFinite /\ [][NextNonFinite]_vars

\* C27: a record whose sum is not finite adds nothing to the total of a
\* report, which is the sum of the converted amounts of the records whose sum
\* is finite, and nothing to the category totals, each of which is the sum
\* over the finite records of its label; a call that did not fail at its
\* fetch has failed only over a record with a finite sum whose currency or
\* target lacks a rate; and convert evaluated on an amount that is not finite
\* has returned 0, whatever the currencies and the table.
C27_NonFiniteCountsZero ==
    /\ \A c \in Callers :
          LET k == calls[c]
              finite == {i \in 1..Len(k.items) : IsFinite(k.items[i].sum)}
          IN  /\ (k.op = "getReport" /\ k.pc = "done") =>
                    Report(k).total.total = SumInTarget(k.items, k.cur, k.resp.table)
              /\ (k.op = "getCategoryTotals" /\ k.pc = "done") =>
                    LET totals == returned(k, Now.off) IN
                    /\ \A j \in 1..Len(totals) :
                          totals[j].total =
                              SetSum([i \in 1..Len(k.items) |->
                                        InTarget(k.items[i], k.cur, k.resp.table)],
                                     {i \in finite : LabelOf(k.items[i]) = totals[j].category})
                    /\ \A i \in 1..Len(k.items) :
                          (i \notin finite /\ \A f \in finite :
                                LabelOf(k.items[f]) # LabelOf(k.items[i])) =>
                              EntriesOf(totals, LabelOf(k.items[i])) = {}
              /\ (k.pc = "failed" /\ k.err \notin {"RatesFetchFailed", "RatesParseFailed"}) =>
                    \E i \in finite :
                        /\ normalizeCurrency(k.items[i].currency) # normalizeCurrency(k.cur)
                        /\ \/ LacksRate(k.resp.table, k.items[i].currency)
                           \/ LacksRate(k.resp.table, k.cur)
    /\ (pure.pc = "done" /\ ~IsFinite(ToNumber(pure.sum))) => pure.out = Ok(Zero)

\* a report in ILS has been returned for a record "abc" in the unknown
\* currency XXX and a record of 340 ILS, with 340 as its total, and
\* convert has returned 0 for an amount that is not finite from XXX to ILS
\* with no table at all
C27_Witness ==
    LET k == calls["report"] IN
    /\ k.op = "getReport" /\ k.pc = "done" /\ k.fetched /\ k.cur = "ILS"
    /\ Len(k.items) = 2
    /\ \E i \in 1..2 : k.items[i].sum = NaN /\ k.items[i].currency = "XXX"
    /\ Report(k).total.total = Int2Num(340)
    /\ pure.pc = "done" /\ ~IsFinite(ToNumber(pure.sum))
    /\ pure.from = "XXX" /\ pure.to = "ILS" /\ pure.rates = NullTable
    /\ pure.out = Ok(Zero)

(***************************************************************************)
(* Records and targets spelled EUR and EURO                                *)
(***************************************************************************)
AliasCosts ==
    { Cost(Int2Num(10), Str("EUR"), Str("Travel"), Str("train")),
      Cost(Str("10"), Str("EURO"), Str(""), Str("taxi")),
      Cost(Int2Num(100), Str("USD"), Str("Food"), Str("lunch")) }

AliasCurrencies == {"EUR", "EURO", "USD"}

\* a table that spells the euro's key EUR: rates[from] is looked up under the
\* normalized code EURO, which this table does not have
EurKeyRates == Table([c \in {"USD", "EUR"} |-> IF c = "USD" THEN Int2Num(1) ELSE Num(9, 10)])

AliasResponses ==
    { Response(TRUE, TRUE, SampleRates), Response(TRUE, TRUE, PartialRates),
      Response(TRUE, TRUE, EurKeyRates) }

NextAlias ==
    \/ \E cost \in AliasCosts : AddCost(cost, 2)
    \/ \E cur \in AliasCurrencies :
          \/ Start("report", "getReport", 2026, 1, cur)
          \/ Start("report", "getCategoryTotals", 2026, 1, cur)
    \/ QueryDone("report")
    \/ \E resp \in AliasResponses : FetchDone("report", resp)
    \/ Return("report")

SpecAlias == Init /\ [][NextAlias]_vars

\* EUR and EURO are one currency
SameCurrency(a, b) == a = b \/ {a, b} = {"EUR", "EURO"}

\* C28: a call that has read its records has fetched the rates if and only
\* if some record is in another currency than the target, EUR and EURO
\* counting as one; a call that fetched nothing cannot fail; in a returned
\* report the row of a record in the target's currency shows the record's
\* own sum as its amount in the target currency, whichever of the two
\* spellings the record and the target use; and a call that got a table
\* fails only over a record in another currency for which the table lacks a
\* rate.
C28_AliasConsistent ==
    \A c \in Callers :
        LET k == calls[c] IN
        (k.op \in {"getReport", "getCategoryTotals"}
            /\ k.pc \in {"fetch", "done", "failed"}) =>
            /\ k.fetched <=>
                  \E i \in 1..Len(k.items) : ~SameCurrency(k.items[i].currency, k.cur)
            /\ (~k.fetched) => k.pc = "done"
            /\ (k.op = "getReport" /\ k.pc = "done") =>
                  \A j \in 1..Len(k.items) :
                      SameCurrency(k.items[j].currency, k.cur) =>
                          /\ Report(k).costs[j].sumInTarget = k.items[j].sum
                          /\ SameCurrency(Report(k).costs[j].targetCurrency,
                                          k.items[j].currency)
            /\ (k.pc = "failed") =>
                  \E i \in 1..Len(k.items) :
                      /\ ~SameCurrency(k.items[i].currency, k.cur)
                      /\ \/ LacksRate(k.resp.table, k.items[i].currency)
                         \/ LacksRate(k.resp.table, k.cur)

\* a report in EURO has been returned after a fetch for a record in EUR and
\* a record in USD: the EUR row shows its own 10, the USD row a converted
\* amount
C28_Witness ==
    LET k == calls["report"] IN
    /\ k.op = "getReport" /\ k.pc = "done" /\ k.fetched /\ k.cur = "EURO"
    /\ Len(k.items) = 2
    /\ \E i, j \in 1..2 :
          /\ k.items[i].currency = "EUR" /\ Report(k).costs[i].sumInTarget = Int2Num(10)
          /\ k.items[j].currency = "USD"
          /\ Report(k).costs[j].sumInTarget # Int2Num(100)

(***************************************************************************)
(* The report view and the chart view asking about the same month          *)
(***************************************************************************)
TotalsCosts ==
    { Cost(Int2Num(100), Str("USD"), Str("Food"), Str("lunch")),
      Cost(Int2Num(340), Str("ILS"), Str("Food"), Str("dinner")),
      Cost(Str("10"), Str("EURO"), Str(""), Str("taxi")),
      Cost(Str("abc"), Str("USD"), Str(""), Str("typo")) }

TotalsCurrencies == {"USD", "ILS"}

\* the sample table, a table without ILS, a table whose USD rate is 0
TotalsResponses ==
    { Response(TRUE, TRUE, SampleRates), Response(TRUE, TRUE, PartialRates),
      Response(TRUE, TRUE, ZeroRates) }

NextTotals ==
    \/ \E cost \in TotalsCosts : AddCost(cost, 2)
    \/ \E cur \in TotalsCurrencies :
          \/ Start("report", "getReport", 2026, 1, cur)
          \/ Start("charts", "getCategoryTotals", 2026, 1, cur)
    \/ \E c \in Callers : QueryDone(c)
    \/ \E c \in Callers, resp \in TotalsResponses : FetchDone(c, resp)
    \/ \E c \in Callers : Return(c)

SpecTotals == Init /\ [][NextTotals]_vars

\* a report and the category totals of the same period, target currency,
\* records and rate table have been returned
SameInputs(r, t) ==
    /\ r.op = "getReport" /\ r.pc = "done"
    /\ t.op = "getCategoryTotals" /\ t.pc = "done"
    /\ r.y = t.y /\ r.m = t.m /\ r.cur = t.cur
    /\ r.items = t.items
    /\ r.fetched = t.fetched
    /\ r.fetched => r.resp = t.resp

\* C29: when getReport and getCategoryTotals have both returned for the same
\* records, period, target currency and rate table, the category totals add
\* up to the report's total, and every record with a finite sum is counted
\* under exactly one category.
C29_CategoriesAddUp ==
    LET r == calls["report"]
        t == calls["charts"]
        totals == returned(t, Now.off)
    IN  SameInputs(r, t) =>
            /\ SetSum([j \in 1..Len(totals) |-> totals[j].total], 1..Len(totals))
                  = Report(r).total.total
            /\ \A i \in 1..Len(t.items) :
                  IsFinite(t.items[i].sum) =>
                      Cardinality(EntriesOf(totals, LabelOf(t.items[i]))) = 1

(***************************************************************************)
(* The module's getReport and the vanilla getReport on the same database   *)
(***************************************************************************)
VanillaCosts ==
    { Cost(Int2Num(100), Str("USD"), Str("Food"), Str("lunch")),
      Cost(Int2Num(340), Str("ILS"), Str("Food"), Str("dinner")),
      Cost(Str("abc"), Str("XXX"), Str(""), Str("typo")) }

VanillaCurrencies == {"USD", "ILS"}

\* the month asked for: January, and 1.5, which the vanilla getReport rejects
VanillaMonths == { Int2Num(1), Num(3, 2) }

\* the sample table, a table without ILS, a table whose USD rate is 0, a
\* non-success status
VanillaResponses ==
    { Response(TRUE, TRUE, SampleRates), Response(TRUE, TRUE, PartialRates),
      Response(TRUE, TRUE, ZeroRates), Response(FALSE, TRUE, NullTable) }

NextVanilla ==
    \/ \E cost \in VanillaCosts : AddCost(cost, 2)
    \/ \E cur \in VanillaCurrencies : Start("report", "getReport", 2026, 1, cur)
    \/ \E month \in VanillaMonths, cur \in VanillaCurrencies :
          VanillaStart("charts", Int2Num(2026), month, cur)
    \/ \E c \in Callers : QueryDone(c)
    \/ \E c \in Callers, resp \in VanillaResponses : FetchDone(c, resp)
    \/ \E c \in Callers : Return(c)

SpecVanilla == Init /\ [][NextVanilla]_vars

\* the module's getReport and the vanilla getReport have settled for the same
\* integer (year, month), target currency, records and answer of the rate
\* endpoint
SameReportInputs(r, v) ==
    /\ r.op = "getReport" /\ r.pc \in {"done", "failed"}
    /\ v.op = "vanilla.getReport" /\ v.pc \in {"done", "failed"}
    /\ v.err # "InvalidYearMonth"
    /\ r.y = v.y /\ r.m = v.m /\ r.cur = v.cur
    /\ r.items = v.items
    /\ r.fetched = v.fetched
    /\ r.fetched => r.resp = v.resp

\* a row of the module's report without sumInTarget and targetCurrency
SpecFields(line) ==
    [sum |-> line.sum, currency |-> line.currency, category |-> line.category,
     description |-> line.description, Date |-> line.Date]

\* C30: for the same records, rate table, target currency and integer (year,
\* month), the module's getReport and the vanilla getReport both succeed or
\* both fail, and when they succeed they return the same year, month and
\* total and, the module's two extra fields aside, the same rows.
C30_SameAsVanilla ==
    LET r == calls["report"]
        v == calls["charts"]
        mine == Report(r)
        theirs == returned(v, Now.off)
    IN  SameReportInputs(r, v) =>
            /\ r.pc = v.pc
            /\ r.pc = "done" =>
                  /\ mine.year = theirs.year /\ mine.month = theirs.month
                  /\ mine.total = theirs.total
                  /\ Len(mine.costs) = Len(theirs.costs)
                  /\ \A j \in 1..Len(mine.costs) : SpecFields(mine.costs[j]) = theirs.costs[j]

====
